---- MODULE Spec2Model ----
(***************************************************************************)
(* A model of the stacking package (iprafols/stacking): spectra are        *)
(* rebinned onto a common wavelength grid, normalized, and stacked.        *)
(*                                                                         *)
(* Floating point values are modelled as exact rationals [n, d] in lowest  *)
(* terms with d > 0, plus the IEEE value NaN, written [n |-> 0, d |-> 0].  *)
(* A standard deviation is kept as the variance it is the square root of.  *)
(***************************************************************************)
EXTENDS Integers, Sequences, FiniteSets, TLC

VARIABLES
    common_wavelength_grid, \* Spectrum.common_wavelength_grid (None or an array)
    iface,                  \* the StackingInterface and the configuration it loads
    normalizer,             \* the MultipleRegionsNormalization of the run
    pool,                   \* the multiprocessing pool of the running map
    stacker,                \* StackingInterface.stacker
    assigned,               \* number of calls of Spectrum.set_common_wavelength_grid
    last_call,              \* the last call on a stacker and the exception it raised
    spectra,                \* the list of spectra handed to the operation
    sigma_i2,               \* MeanStacker.sigma_i2
    cut,                    \* the first `cut` spectra form partial run A, the rest B
    partA,                  \* MeanStacker stacking partial run A
    partB,                  \* MeanStacker stacking partial run B
    whole,                  \* MeanStacker stacking the full list
    merged,                 \* MergeMeanStacker combining partA and partB
    rng,                    \* the state of the global generator np.random
    boots                   \* two BootstrapMeanStacker built from one configuration

stackVars == <<cut, partA, partB, whole, merged>>

bootVars == <<rng, boots>>

runVars == <<iface, normalizer, pool, stacker, assigned, last_call>>

vars == <<common_wavelength_grid, spectra, sigma_i2, stackVars, bootVars, runVars>>

\* the value of a variable that takes no part in a specification
None == "None"

\* an attribute that is None or holds a value: <<>> is None, <<v>> holds v
Unset == <<>>
Holding(v) == <<v>>
IsNone(attr) == Len(attr) = 0
Value(attr) == attr[1]

(***************************************************************************)
(* Bounds of the model.                                                    *)
(***************************************************************************)
MaxSpectra == 3
MaxBootSpectra == 2
MaxBootstrap == 2

(***************************************************************************)
(* Exact arithmetic with NaN.                                              *)
(***************************************************************************)
Abs(x) == IF x < 0 THEN -x ELSE x

RECURSIVE GCD(_, _)
GCD(a, b) == IF b = 0 THEN a ELSE GCD(b, a % b)

NaN == [n |-> 0, d |-> 0]

IsNaN(x) == x.d = 0

\* the rational num/den in lowest terms (den # 0)
Rat(num, den) ==
    LET g == GCD(Abs(num), Abs(den))
        s == IF den < 0 THEN -1 ELSE 1
    IN [n |-> s * (num \div g), d |-> s * (den \div g)]

Zero == Rat(0, 1)
One == Rat(1, 1)

\* sums and products are formed over the least common denominator and after
\* cancelling common factors, which keeps the integers of the model small
RAdd(x, y) ==
    IF IsNaN(x) \/ IsNaN(y) THEN NaN
    ELSE LET g == GCD(x.d, y.d)
         IN Rat(x.n * (y.d \div g) + y.n * (x.d \div g), (x.d \div g) * y.d)

RSub(x, y) ==
    IF IsNaN(x) \/ IsNaN(y) THEN NaN
    ELSE LET g == GCD(x.d, y.d)
         IN Rat(x.n * (y.d \div g) - y.n * (x.d \div g), (x.d \div g) * y.d)

RMul(x, y) ==
    IF IsNaN(x) \/ IsNaN(y) THEN NaN
    ELSE LET g == GCD(Abs(x.n), y.d)
             h == GCD(Abs(y.n), x.d)
         IN Rat((x.n \div g) * (y.n \div h), (x.d \div h) * (y.d \div g))

\* x / y; the callers divide only where y is non-zero, 0/0 is NaN as in numpy
RDiv(x, y) ==
    IF IsNaN(x) \/ IsNaN(y) \/ y.n = 0 THEN NaN
    ELSE Rat(x.n * y.d, x.d * y.n)

\* x > 0, False for NaN as every IEEE comparison with NaN
RPos(x) == ~IsNaN(x) /\ x.n > 0

\* np.nansum along axis 0 of one column: NaN entries count as zero
RECURSIVE NanSum(_)
NanSum(col) ==
    IF Len(col) = 0 THEN Zero
    ELSE IF IsNaN(Head(col)) THEN NanSum(Tail(col))
    ELSE RAdd(Head(col), NanSum(Tail(col)))

\* the indexes of an array on the common grid
Bins(array) == 1..Len(array)

(***************************************************************************)
(* Stacker.__init__ : the zero-initialised results of a new stacker.       *)
(***************************************************************************)
ZerosGrid(grid) == [b \in 1..Len(grid) |-> Zero]

NewStacker(grid) ==
    [stacked_flux |-> ZerosGrid(grid),
     stacked_error |-> ZerosGrid(grid),
     stacked_weight |-> ZerosGrid(grid),
     status |-> "constructed"]

(***************************************************************************)
(* MeanStacker.stack                                                       *)
(***************************************************************************)
\* mutant: the weight without the sigma_I regularisation
MeanWeight_unregularised(ivar, s2) == ivar

\* weights: spectrum.ivar_common_grid / (1 + sigma_i2 * spectrum.ivar_common_grid)
MeanWeight(ivar, s2) == RDiv(ivar, RAdd(One, RMul(s2, ivar)))

\* the column of weights of bin b, one entry per spectrum
WeightColumn(list, s2, b) ==
    [i \in 1..Len(list) |-> MeanWeight(list[i].ivar_common_grid[b], s2)]

\* the column normalized_flux * weights of bin b
FluxWeightColumn(list, s2, b) ==
    [i \in 1..Len(list) |->
        RMul(list[i].normalized_flux[b],
             MeanWeight(list[i].ivar_common_grid[b], s2))]

\* self.stacked_weight = np.nansum(weights, axis=0)
MeanStackedWeight(list, s2, b) == NanSum(WeightColumn(list, s2, b))

\* self.stacked_flux = np.nansum(flux * weights, axis=0), then divided by
\* stacked_weight on the good pixels (stacked_weight != 0.0)
MeanStackedFlux(list, s2, b) ==
    LET total == NanSum(FluxWeightColumn(list, s2, b))
        weight == MeanStackedWeight(list, s2, b)
    IN IF weight # Zero THEN RDiv(total, weight) ELSE total

\* np.stack of an empty list raises ValueError and leaves the stacker untouched
MeanStacker_stack(self, list, s2) ==
    IF Len(list) = 0 THEN [self EXCEPT !.status = "ValueError"]
    ELSE [self EXCEPT
            !.stacked_flux = [b \in Bins(self.stacked_flux) |->
                                 MeanStackedFlux(list, s2, b)],
            !.stacked_weight = [b \in Bins(self.stacked_weight) |->
                                   MeanStackedWeight(list, s2, b)],
            !.status = "stacked"]

(***************************************************************************)
(* MergeMeanStacker.stack                                                  *)
(***************************************************************************)
\* mutant: the partial fluxes summed without their weights
MergeFluxColumn_unweighted(stacks, b) ==
    [k \in 1..Len(stacks) |-> stacks[k][1][b]]

\* the column flux * weight of bin b, one entry per partial run
MergeFluxColumn(stacks, b) ==
    [k \in 1..Len(stacks) |-> RMul(stacks[k][1][b], stacks[k][2][b])]

MergeWeightColumn(stacks, b) == [k \in 1..Len(stacks) |-> stacks[k][2][b]]

MergeStackedWeight(stacks, b) == NanSum(MergeWeightColumn(stacks, b))

MergeStackedFlux(stacks, b) ==
    LET total == NanSum(MergeFluxColumn(stacks, b))
        weight == MergeStackedWeight(stacks, b)
    IN IF weight # Zero THEN RDiv(total, weight) ELSE total

\* spectra must be None; self.stacks holds one (flux, weight) pair per partial run
MergeMeanStacker_stack(self, list, stacks) ==
    IF ~IsNone(list) THEN [self EXCEPT !.status = "StackerError"]
    ELSE IF Len(stacks) = 0 THEN [self EXCEPT !.status = "ValueError"]
    ELSE [self EXCEPT
            !.stacked_flux = [b \in Bins(self.stacked_flux) |->
                                 MergeStackedFlux(stacks, b)],
            !.stacked_weight = [b \in Bins(self.stacked_weight) |->
                                   MergeStackedWeight(stacks, b)],
            !.status = "stacked"]

(***************************************************************************)
(* SpecStack: MeanStacker and MergeMeanStacker on lists of normalized      *)
(* spectra.  Each spectrum is already rebinned and normalized; the grid    *)
(* here has a single point, every bin being stacked from its own column.   *)
(***************************************************************************)
StackGrid == <<Rat(1000, 1)>>

\* values of normalized_flux at a bin (NaN marks an unusable spectrum)
FluxVals == {NaN, Rat(2, 1), Rat(4, 1), Rat(6, 1)}

\* values of ivar_common_grid at a bin (0 marks a masked pixel)
IvarVals == {Zero, One, Rat(2, 1)}

\* values of the option sigma_I (non-negative)
SigmaIVals == {Zero, One}

NormalizedSpectra ==
    [normalized_flux : [1..Len(StackGrid) -> FluxVals],
     ivar_common_grid : [1..Len(StackGrid) -> IvarVals]]

SpectraLists == UNION {[1..n -> NormalizedSpectra] : n \in 0..MaxSpectra}

\* the sublist of the spectra at positions from..to
Slice(list, from, to) == [i \in 1..(to - from + 1) |-> list[from + i - 1]]

ListA == Slice(spectra, 1, cut)
ListB == Slice(spectra, cut + 1, Len(spectra))

InitStack ==
    /\ common_wavelength_grid = Holding(StackGrid)
    /\ spectra \in SpectraLists
    /\ cut \in 0..Len(spectra)
    /\ \E sigma_i \in SigmaIVals : sigma_i2 = RMul(sigma_i, sigma_i)
    /\ partA = NewStacker(Value(common_wavelength_grid))
    /\ partB = NewStacker(Value(common_wavelength_grid))
    /\ whole = NewStacker(Value(common_wavelength_grid))
    /\ merged = NewStacker(Value(common_wavelength_grid))
    /\ rng = None
    /\ boots = None
    /\ iface = None /\ normalizer = None /\ pool = None
    /\ stacker = None /\ assigned = None /\ last_call = None

\* MeanStacker.stack on the spectra of partial run A
StackPartA ==
    /\ partA.status = "constructed"
    /\ partA' = MeanStacker_stack(partA, ListA, sigma_i2)
    /\ UNCHANGED <<common_wavelength_grid, spectra, sigma_i2, cut, partB,
                   whole, merged, bootVars, runVars>>

\* MeanStacker.stack on the spectra of partial run B, made after run A
StackPartB ==
    /\ partA.status # "constructed"
    /\ partB.status = "constructed"
    /\ partB' = MeanStacker_stack(partB, ListB, sigma_i2)
    /\ UNCHANGED <<common_wavelength_grid, spectra, sigma_i2, cut, partA,
                   whole, merged, bootVars, runVars>>

\* MeanStacker.stack on the full list, made after the partial runs
StackWhole ==
    /\ partB.status # "constructed"
    /\ whole.status = "constructed"
    /\ whole' = MeanStacker_stack(whole, spectra, sigma_i2)
    /\ UNCHANGED <<common_wavelength_grid, spectra, sigma_i2, cut, partA,
                   partB, merged, bootVars, runVars>>

\* MergeMeanStacker.stack(None) on the (flux, weight) pairs of the two runs
MergeParts ==
    /\ whole.status # "constructed"
    /\ merged.status = "constructed"
    /\ partA.status = "stacked"
    /\ partB.status = "stacked"
    /\ merged' = MergeMeanStacker_stack(merged, Unset,
                    <<<<partA.stacked_flux, partA.stacked_weight>>,
                      <<partB.stacked_flux, partB.stacked_weight>>>>)
    /\ UNCHANGED <<common_wavelength_grid, spectra, sigma_i2, cut, partA,
                   partB, whole, bootVars, runVars>>

NextStack == StackPartA \/ StackPartB \/ StackWhole \/ MergeParts

SpecStack == InitStack /\ [][NextStack]_vars

(***************************************************************************)
(* Reference sums used to state the claims: plain sums over an index set.  *)
(***************************************************************************)
RECURSIVE SumOver(_, _)
SumOver(S, f) ==
    IF S = {} THEN Zero
    ELSE LET i == CHOOSE j \in S : TRUE
         IN RAdd(f[i], SumOver(S \ {i}, f))

\* w = ivar / (1 + sigma_I^2 * ivar) of spectrum i at bin b
RegWeight(i, b) ==
    LET ivar == spectra[i].ivar_common_grid[b]
    IN Rat(ivar.n * sigma_i2.d, ivar.d * sigma_i2.d + sigma_i2.n * ivar.n)

\* the spectra usable at bin b: those whose normalized flux is not NaN
Usable(b) == {i \in 1..Len(spectra) : ~IsNaN(spectra[i].normalized_flux[b])}

WeightSum(S, b) == SumOver(S, [i \in S |-> RegWeight(i, b)])

FluxSum(S, b) ==
    SumOver(S, [i \in S |-> RMul(spectra[i].normalized_flux[b], RegWeight(i, b))])

\* the list whose spectra have the given fluxes and inverse variances at the bin
Example(fluxes, ivars) ==
    [i \in 1..Len(fluxes) |->
        [normalized_flux |-> <<fluxes[i]>>, ivar_common_grid |-> <<ivars[i]>>]]

\* C1: merging the MeanStacker results of two disjoint lists with
\* MergeMeanStacker's formula gives, in every bin, the stacked_flux and
\* stacked_weight of one MeanStacker.stack over the union of the lists.
C1_MergeEqualsUnion ==
    (merged.status = "stacked" /\ whole.status = "stacked") =>
        /\ merged.stacked_flux = whole.stacked_flux
        /\ merged.stacked_weight = whole.stacked_weight

\* two non-empty runs with unequal regularised weights and a NaN flux, merged
C1_Witness ==
    /\ merged.status = "stacked"
    /\ whole.status = "stacked"
    /\ Len(spectra) = MaxSpectra
    /\ cut = 1
    /\ sigma_i2 # Zero
    /\ partA.stacked_weight[1] # Zero
    /\ partB.stacked_weight[1] # Zero
    /\ partA.stacked_weight[1] # partB.stacked_weight[1]
    /\ partA.stacked_flux[1] # partB.stacked_flux[1]
    /\ \E i \in 1..Len(spectra) : IsNaN(spectra[i].normalized_flux[1])

\* C2: a spectrum whose normalized flux is NaN at a bin is left out of the
\* flux sum and of stacked_weight at that bin; ivar [1,1,1], sigma_I = 0 and
\* flux [2,4,NaN] give stacked_flux = 3 and stacked_weight = 2.
C2_NaNLeftOut ==
    whole.status = "stacked" =>
        /\ \A b \in Bins(whole.stacked_weight) :
              /\ whole.stacked_weight[b] = WeightSum(Usable(b), b)
              /\ WeightSum(Usable(b), b) # Zero =>
                    whole.stacked_flux[b] =
                        RDiv(FluxSum(Usable(b), b), WeightSum(Usable(b), b))
        /\ (/\ spectra = Example(<<Rat(2, 1), Rat(4, 1), NaN>>, <<One, One, One>>)
            /\ sigma_i2 = Zero) =>
              /\ whole.stacked_flux[1] = Rat(3, 1)
              /\ whole.stacked_weight[1] = Rat(2, 1)

\* the example of C2: the code divides the sum 2 + 4 by the weight of all three
C2_ExampleCode ==
    /\ whole.status = "stacked"
    /\ spectra = Example(<<Rat(2, 1), Rat(4, 1), NaN>>, <<One, One, One>>)
    /\ sigma_i2 = Zero
    /\ whole.stacked_flux[1] = Rat(2, 1)
    /\ whole.stacked_weight[1] = Rat(3, 1)

\* C3: without NaN flux, stacked_weight is the sum of ivar/(1+sigma_I^2*ivar)
\* and stacked_flux the weighted sum over stacked_weight, exactly 0 where
\* stacked_weight is 0; flux [2,4,6], ivar [1,1,1], sigma_I = 0 give 4 and 3.
C3_MeanFormula ==
    (whole.status = "stacked" /\ \A b \in Bins(whole.stacked_flux) :
                                    Usable(b) = 1..Len(spectra)) =>
        /\ \A b \in Bins(whole.stacked_weight) :
              /\ whole.stacked_weight[b] = WeightSum(1..Len(spectra), b)
              /\ ~IsNaN(whole.stacked_flux[b])
              /\ whole.stacked_flux[b] =
                    IF WeightSum(1..Len(spectra), b) # Zero
                    THEN RDiv(FluxSum(1..Len(spectra), b),
                              WeightSum(1..Len(spectra), b))
                    ELSE Zero
        /\ (/\ spectra = Example(<<Rat(2, 1), Rat(4, 1), Rat(6, 1)>>,
                                 <<One, One, One>>)
            /\ sigma_i2 = Zero) =>
              /\ whole.stacked_flux[1] = Rat(4, 1)
              /\ whole.stacked_weight[1] = Rat(3, 1)

\* the example of the claim, stacked
C3_Witness ==
    /\ whole.status = "stacked"
    /\ spectra = Example(<<Rat(2, 1), Rat(4, 1), Rat(6, 1)>>, <<One, One, One>>)
    /\ sigma_i2 = Zero
    /\ whole.stacked_flux[1] = Rat(4, 1)

\* a bin of zero total weight next to regularised weights, stacked
C3_WitnessZeroWeight ==
    /\ whole.status = "stacked"
    /\ Len(spectra) = 2
    /\ Usable(1) = 1..Len(spectra)
    /\ whole.stacked_weight[1] = Zero
    /\ whole.stacked_flux[1] = Zero

(***************************************************************************)
(* The global generator np.random.  The Mersenne Twister is a              *)
(* deterministic function of its state; a small congruential generator     *)
(* stands for it.                                                          *)
(***************************************************************************)
RngStates == 0..7

\* mutant: seeding that leaves the generator as it was
SeedRng_ignored(state, seed) == state

\* np.random.seed(self.random_seed)
SeedRng(state, seed) == seed % 8

\* one step of the generator
RngStep(state) == (5 * state + 3) % 8

\* the index in 1..n drawn in the generator state reached by the step
RngIndex(state, n) == ((state \div 2) % n) + 1

\* np.random.choice(spectra, size=len(spectra)): size indexes in 1..n drawn
\* one after the other, with replacement
RECURSIVE ChoiceIndexes(_, _, _)
ChoiceIndexes(state, n, size) ==
    IF size = 0 THEN <<>>
    ELSE <<RngIndex(RngStep(state), n)>> \o
         ChoiceIndexes(RngStep(state), n, size - 1)

\* the generator state after drawing size indexes
RECURSIVE ChoiceState(_, _)
ChoiceState(state, size) ==
    IF size = 0 THEN state ELSE ChoiceState(RngStep(state), size - 1)

(***************************************************************************)
(* BootstrapStacker.compute_errors                                         *)
(***************************************************************************)
\* np.sqrt, kept symbolic: the square root of the variance v
RSqrt(v) ==
    IF IsNaN(v) THEN NaN ELSE IF v = Zero THEN Zero ELSE [sqrt_of |-> v]

\* the entries of a column that are not NaN
RECURSIVE DropNaN(_)
DropNaN(col) ==
    IF Len(col) = 0 THEN <<>>
    ELSE IF IsNaN(Head(col)) THEN DropNaN(Tail(col))
    ELSE <<Head(col)>> \o DropNaN(Tail(col))

\* np.nanstd along axis 0 of one column
NanStd(col) ==
    LET kept == DropNaN(col)
        count == Rat(Len(kept), 1)
        mean == RDiv(NanSum(kept), count)
        squares == [i \in 1..Len(kept) |->
                       RMul(RSub(kept[i], mean), RSub(kept[i], mean))]
    IN IF Len(kept) = 0 THEN NaN ELSE RSqrt(RDiv(NanSum(squares), count))

\* Stacker.set_stacked_error of the nanstd over the bootstrap stacks;
\* np.stack of no bootstrap stacker raises ValueError
ComputeErrors(main, stackers) ==
    IF Len(stackers) = 0 THEN [main EXCEPT !.status = "ValueError"]
    ELSE [main EXCEPT
            !.stacked_error = [b \in Bins(main.stacked_error) |->
                NanStd([k \in 1..Len(stackers) |-> stackers[k].stacked_flux[b]])],
            !.status = "errors set"]

(***************************************************************************)
(* BootstrapMeanStacker.__init__ and BootstrapStacker.stack, step by step  *)
(***************************************************************************)
NewBootstrapMeanStacker(grid, num_bootstrap, random_seed) ==
    [num_bootstrap |-> num_bootstrap,
     random_seed |-> random_seed,
     main_stacker |-> NewStacker(grid),
     bootstrap_stackers |-> [k \in 1..num_bootstrap |-> NewStacker(grid)],
     bootstrap_set |-> None,
     sets |-> <<>>,
     trace |-> <<>>,
     entered_with |-> None,
     pc |-> "constructed"]

\* the number of realizations stacked so far
Realized(self) ==
    Cardinality({k \in 1..self.num_bootstrap :
                    self.bootstrap_stackers[k].status # "constructed"})

\* the spectra of a bootstrap set
BootstrapSpectra(list, set) == [i \in 1..Len(set) |-> list[set[i]]]

\* mutant: the errors are computed as soon as one realization is stacked
StepAfterRealization_early(self) == "errors"

\* the for loop over self.bootstrap_stackers: the next draw, or the errors
StepAfterRealization(self) ==
    IF Realized(self) < self.num_bootstrap THEN "draw" ELSE "errors"

(***************************************************************************)
(* SpecBoot: two BootstrapMeanStacker built from one configuration stack   *)
(* the same spectra, one call after the other, in a process where other    *)
(* code draws from np.random between the calls.                            *)
(***************************************************************************)
BootGrid == <<Rat(1000, 1), Rat(1001, 1)>>

\* normalized spectra on BootGrid; the second one is unusable (all NaN)
BootSpectra ==
    {[normalized_flux |-> <<Rat(2, 1), Rat(4, 1)>>,
      ivar_common_grid |-> <<One, One>>],
     [normalized_flux |-> <<NaN, NaN>>,
      ivar_common_grid |-> <<One, Rat(2, 1)>>],
     [normalized_flux |-> <<Rat(6, 1), Rat(2, 1)>>,
      ivar_common_grid |-> <<Rat(2, 1), Zero>>]}

\* values of the option 'random seed'
SeedVals == {1, 10}

Executions == {1, 2}

Running(self) == self.pc \in {"seed", "draw", "realization", "errors"}

Finished(self) == self.pc \in {"returned", "ValueError"}

InitBoot ==
    /\ common_wavelength_grid = Holding(BootGrid)
    /\ spectra \in UNION {[1..n -> BootSpectra] : n \in 0..MaxBootSpectra}
    /\ \E sigma_i \in SigmaIVals : sigma_i2 = RMul(sigma_i, sigma_i)
    /\ rng \in RngStates
    /\ \E num_bootstrap \in 0..MaxBootstrap, random_seed \in SeedVals :
          boots = [e \in Executions |->
                      NewBootstrapMeanStacker(Value(common_wavelength_grid),
                                              num_bootstrap, random_seed)]
    /\ cut = None /\ partA = None /\ partB = None
    /\ whole = None /\ merged = None
    /\ iface = None /\ normalizer = None /\ pool = None
    /\ stacker = None /\ assigned = None /\ last_call = None

\* other code of the process draws from np.random between two calls
OtherDraw ==
    /\ \A e \in Executions : ~Running(boots[e])
    /\ \E e \in Executions : boots[e].pc = "constructed"
    /\ rng' = RngStep(rng)
    /\ UNCHANGED <<common_wavelength_grid, spectra, sigma_i2, stackVars, runVars, boots>>

\* stack is entered: self.main_stacker.stack(spectra)
BootMain(e) ==
    /\ boots[e].pc = "constructed"
    /\ \A o \in Executions : ~Running(boots[o])
    /\ LET main == MeanStacker_stack(boots[e].main_stacker, spectra, sigma_i2)
       IN boots' = [boots EXCEPT
            ![e].main_stacker = main,
            ![e].trace = Append(@, <<"main">>),
            ![e].entered_with = rng,
            ![e].pc = IF main.status = "stacked" THEN "seed" ELSE "ValueError"]
    /\ UNCHANGED <<common_wavelength_grid, spectra, sigma_i2, stackVars, runVars, rng>>

\* np.random.seed(self.random_seed)
BootSeed(e) ==
    /\ boots[e].pc = "seed"
    /\ rng' = SeedRng(rng, boots[e].random_seed)
    /\ boots' = [boots EXCEPT
            ![e].trace = Append(@, <<"seed">>),
            ![e].pc = StepAfterRealization(boots[e])]
    /\ UNCHANGED <<common_wavelength_grid, spectra, sigma_i2, stackVars, runVars>>

\* bootstrap_set = np.random.choice(spectra, size=len(spectra))
BootDraw(e) ==
    /\ boots[e].pc = "draw"
    /\ rng' = ChoiceState(rng, Len(spectra))
    /\ boots' = [boots EXCEPT
            ![e].bootstrap_set = ChoiceIndexes(rng, Len(spectra), Len(spectra)),
            ![e].sets = Append(@, ChoiceIndexes(rng, Len(spectra), Len(spectra))),
            ![e].trace = Append(@, <<"draw", Realized(boots[e])>>),
            ![e].pc = "realization"]
    /\ UNCHANGED <<common_wavelength_grid, spectra, sigma_i2, stackVars, runVars>>

\* stacker.stack(bootstrap_set) for the next of self.bootstrap_stackers
BootRealization(e) ==
    /\ boots[e].pc = "realization"
    /\ LET k == Realized(boots[e]) + 1
           after == [boots[e] EXCEPT
                !.bootstrap_stackers[k] =
                    MeanStacker_stack(@,
                        BootstrapSpectra(spectra, boots[e].bootstrap_set),
                        sigma_i2),
                !.trace = Append(@, <<"stack", k - 1>>)]
       IN boots' = [boots EXCEPT
                ![e] = [after EXCEPT !.pc = StepAfterRealization(after)]]
    /\ UNCHANGED <<common_wavelength_grid, spectra, sigma_i2, stackVars, runVars, rng>>

\* self.compute_errors()
BootErrors(e) ==
    /\ boots[e].pc = "errors"
    /\ LET main == ComputeErrors(boots[e].main_stacker,
                                 boots[e].bootstrap_stackers)
       IN boots' = [boots EXCEPT
            ![e].main_stacker = main,
            ![e].trace = Append(@, <<"errors">>),
            ![e].pc = IF main.status = "errors set"
                      THEN "returned" ELSE "ValueError"]
    /\ UNCHANGED <<common_wavelength_grid, spectra, sigma_i2, stackVars, runVars, rng>>

NextBoot ==
    \/ OtherDraw
    \/ \E e \in Executions :
          BootMain(e) \/ BootSeed(e) \/ BootDraw(e) \/ BootRealization(e)
          \/ BootErrors(e)

SpecBoot == InitBoot /\ [][NextBoot]_vars

(***************************************************************************)
(* Claims on BootstrapStacker.stack                                        *)
(***************************************************************************)
\* the draw and the stack of realizations k, k+1, ..., n-1, in that order
RECURSIVE RealizationSteps(_, _)
RealizationSteps(k, n) ==
    IF k >= n THEN <<>>
    ELSE <<<<"draw", k>>, <<"stack", k>>>> \o RealizationSteps(k + 1, n)

\* the steps of one stack call with n realizations
StackSteps(n) ==
    <<<<"main">>, <<"seed">>>> \o RealizationSteps(0, n) \o <<<<"errors">>>>

IsPrefix(a, b) ==
    /\ Len(a) <= Len(b)
    /\ \A i \in 1..Len(a) : a[i] = b[i]

\* C8: stack runs the main stack, then seeds the generator, then for
\* realization 0, 1, ..., N-1 in order draws len(spectra) spectra with
\* replacement from the input and stacks them, and sets the main
\* stacked_error only after all N realizations.
C8_StackOrder ==
    \A e \in Executions :
        /\ IsPrefix(boots[e].trace, StackSteps(boots[e].num_bootstrap))
        /\ boots[e].pc = "returned" =>
              boots[e].trace = StackSteps(boots[e].num_bootstrap)
        /\ \A j \in 1..Len(boots[e].sets) :
              /\ Len(boots[e].sets[j]) = Len(spectra)
              /\ \A i \in 1..Len(spectra) :
                    boots[e].sets[j][i] \in 1..Len(spectra)
        /\ Len(boots[e].sets) >= Realized(boots[e])
        /\ boots[e].main_stacker.status = "errors set" =>
              /\ Realized(boots[e]) = boots[e].num_bootstrap
              /\ Len(boots[e].sets) = boots[e].num_bootstrap
        /\ boots[e].main_stacker.status # "errors set" =>
              boots[e].main_stacker.stacked_error =
                  ZerosGrid(Value(common_wavelength_grid))

\* a call with all realizations done, one of them drawing a spectrum twice
C8_Witness ==
    \E e \in Executions :
        /\ boots[e].pc = "returned"
        /\ boots[e].num_bootstrap = MaxBootstrap
        /\ Len(spectra) = MaxBootSpectra
        /\ \E j \in 1..Len(boots[e].sets) :
              boots[e].sets[j][1] = boots[e].sets[j][2]

\* C9: two executions with the same seed, input and number of realizations
\* yield the same main stack, bootstrap stacks and stacked_error, whatever
\* was drawn from the generator before each call.
C9_Reproducible ==
    (\A e \in Executions : Finished(boots[e])) =>
        /\ boots[1].main_stacker = boots[2].main_stacker
        /\ boots[1].bootstrap_stackers = boots[2].bootstrap_stackers
        /\ boots[1].pc = boots[2].pc

\* two finished calls entered in different generator states, whose
\* realizations differ from each other
C9_Witness ==
    /\ \A e \in Executions : boots[e].pc = "returned"
    /\ boots[1].entered_with # boots[2].entered_with
    /\ boots[1].num_bootstrap >= 2
    /\ boots[1].bootstrap_stackers[1].stacked_flux #
          boots[1].bootstrap_stackers[2].stacked_flux
    /\ boots[1].main_stacker.stacked_error # ZerosGrid(Value(common_wavelength_grid))

(***************************************************************************)
(* More arithmetic: order, conversion to integers, powers of ten.          *)
(***************************************************************************)
\* x < y and x <= y, False when either side is NaN; the whole parts are
\* compared first, which keeps the products of the model small
RLess(x, y) ==
    /\ ~IsNaN(x) /\ ~IsNaN(y)
    /\ IF x.n \div x.d # y.n \div y.d THEN x.n \div x.d < y.n \div y.d
       ELSE (x.n % x.d) * y.d < (y.n % y.d) * x.d

RLeq(x, y) ==
    /\ ~IsNaN(x) /\ ~IsNaN(y)
    /\ IF x.n \div x.d # y.n \div y.d THEN x.n \div x.d < y.n \div y.d
       ELSE (x.n % x.d) * y.d <= (y.n % y.d) * x.d

\* |x|
RAbs(x) == IF IsNaN(x) THEN NaN ELSE Rat(Abs(x.n), x.d)

\* the default tolerances of np.isclose and np.allclose
Rtol == Rat(1, 100000)
Atol == Rat(1, 100000000)

\* np.isclose(a, b): |a - b| <= atol + rtol * |b|, False for NaN
IsClose(a, b) ==
    RLeq(RAbs(RSub(a, b)), RAdd(Atol, RMul(Rtol, RAbs(b))))

\* np.allclose(a, b) on two arrays of one length
AllClose(a, b) == \A i \in 1..Len(a) : IsClose(a[i], b[i])

\* .astype(np.int64) and int(): the fractional part is dropped, towards zero
Trunc(x) == IF x.n >= 0 THEN x.n \div x.d ELSE -((-x.n) \div x.d)

\* round(x, 0): to the nearest integer, a tie going to the even neighbour
Round(x) ==
    LET floor == x.n \div x.d
        twice == 2 * (x.n - floor * x.d)
    IN IF twice < x.d THEN floor
       ELSE IF twice > x.d THEN floor + 1
       ELSE IF floor % 2 = 0 THEN floor ELSE floor + 1

\* the exponents whose power of ten the model represents
MaxExponent == 4

RECURSIVE IntPow10(_)
IntPow10(k) == IF k = 0 THEN 1 ELSE 10 * IntPow10(k - 1)

\* 10**x for a whole exponent in 0..MaxExponent (NaN stands for any other)
Pow10(x) ==
    IF ~IsNaN(x) /\ x.d = 1 /\ x.n \in 0..MaxExponent
    THEN Rat(IntPow10(x.n), 1) ELSE NaN

\* np.log10(x) for a power of ten up to 10**MaxExponent (NaN stands for any other)
Log10(x) ==
    IF \E k \in 0..MaxExponent : x = Rat(IntPow10(k), 1)
    THEN Rat(CHOOSE k \in 0..MaxExponent : x = Rat(IntPow10(k), 1), 1)
    ELSE NaN

\* np.linspace(start, stop, num)
Linspace(start, stop, num) ==
    [i \in 1..num |->
        IF num = 1 THEN start
        ELSE RAdd(start, RDiv(RMul(Rat(i - 1, 1), RSub(stop, start)),
                              Rat(num - 1, 1)))]

(***************************************************************************)
(* Spectrum                                                                *)
(***************************************************************************)
\* Spectrum.__init__
NewSpectrum(specid, flux, ivar, wavelength, redshift) ==
    [specid |-> specid, flux |-> flux, ivar |-> ivar,
     wavelength |-> wavelength, redshift |-> redshift,
     flux_common_grid |-> Unset, ivar_common_grid |-> Unset,
     normalized_flux |-> Unset]

\* mutant: only the length of the flux is checked
SetFluxIvarRaises_flux_only(grid, flux_common_grid, ivar_common_grid) ==
    IF Len(flux_common_grid) # Len(Value(grid)) THEN "SpectrumError"
    ELSE None

\* Spectrum.set_flux_ivar_common_grid: the exception it raises, or None
SetFluxIvarRaises(grid, flux_common_grid, ivar_common_grid) ==
    IF Len(flux_common_grid) # Len(Value(grid)) THEN "SpectrumError"
    ELSE IF Len(ivar_common_grid) # Len(Value(grid)) THEN "SpectrumError"
    ELSE None

set_flux_ivar_common_grid(self, flux_common_grid, ivar_common_grid) ==
    [self EXCEPT !.flux_common_grid = Holding(flux_common_grid),
                 !.ivar_common_grid = Holding(ivar_common_grid)]

\* Spectrum.set_normalized_flux: the exception it raises, or None
SetNormalizedRaises(grid, normalized_flux) ==
    IF Len(normalized_flux) # Len(Value(grid)) THEN "SpectrumError" ELSE None

set_normalized_flux(self, normalized_flux) ==
    [self EXCEPT !.normalized_flux = Holding(normalized_flux)]

(***************************************************************************)
(* Rebin                                                                   *)
(***************************************************************************)
\* size_common_grid as Rebin.__parse_config computes it
SizeCommonGrid(config) ==
    IF config.step_type = "lin"
    THEN Round(RDiv(RSub(config.max_wavelength, config.min_wavelength),
                    config.step_wavelength))
    ELSE Round(RDiv(RSub(Log10(config.max_wavelength),
                         Log10(config.min_wavelength)),
                    config.step_wavelength))

\* expected_max_wavelength of Rebin.__parse_config
ExpectedMaxWavelength(config) ==
    LET span == RMul(Rat(SizeCommonGrid(config), 1), config.step_wavelength)
    IN IF config.step_type = "lin" THEN RAdd(config.min_wavelength, span)
       ELSE Pow10(RAdd(Log10(config.min_wavelength), span))

\* Rebin.__parse_config: the exception it raises, or None
RebinParseRaises(config) ==
    IF RLess(config.max_wavelength, config.min_wavelength) THEN "RebinError"
    ELSE IF config.step_type \notin {"lin", "log"} THEN "RebinError"
    ELSE IF ~IsClose(ExpectedMaxWavelength(config), config.max_wavelength)
         THEN "RebinError"
    ELSE None

\* Rebin.prepare_common_wavelength_grid: the grid the instance keeps
RebinGrid(config) ==
    IF config.step_type = "lin"
    THEN Linspace(config.min_wavelength, config.max_wavelength,
                  SizeCommonGrid(config))
    ELSE Linspace(Log10(config.min_wavelength), Log10(config.max_wavelength),
                  SizeCommonGrid(config))

\* ... and the grid it hands to Spectrum.set_common_wavelength_grid
SpectrumGrid(config) ==
    IF config.step_type = "lin" THEN RebinGrid(config)
    ELSE [i \in 1..Len(RebinGrid(config)) |-> Pow10(RebinGrid(config)[i])]

\* Rebin.__init__ with a configuration that parses
NewRebin(config) ==
    [step_type |-> config.step_type,
     common_wavelength_grid |-> RebinGrid(config)]

\* find_bins: the bin of one sample, counted from 0
find_bins(original, grid_array) ==
    Trunc(RAdd(RDiv(RSub(original, grid_array[1]),
                    RSub(grid_array[2], grid_array[1])),
               Rat(1, 2)))

\* valid_bins of rebin: the samples kept
ValidBin(bin, grid_array) == bin > 0 /\ bin < Len(grid_array)

\* np.bincount(bins[valid_bins], weights=...)[bin]: the sum of the weights
\* of the kept samples that fall in the bin
RECURSIVE BinCount(_, _, _, _, _)
BinCount(weights, wavelength, grid_array, bin, j) ==
    IF j > Len(wavelength) THEN Zero
    ELSE LET found == find_bins(wavelength[j], grid_array)
             rest == BinCount(weights, wavelength, grid_array, bin, j + 1)
         IN IF ValidBin(found, grid_array) /\ found = bin
            THEN RAdd(weights[j], rest) ELSE rest

\* rebin: the pair (rebin_flux, rebin_ivar)
rebin(flux, ivar, wavelength, grid_array) ==
    LET weighted == [j \in 1..Len(flux) |-> RMul(ivar[j], flux[j])]
        rebin_ivar == [b \in 1..Len(grid_array) |->
                          BinCount(ivar, wavelength, grid_array, b - 1, 1)]
        rebin_flux == [b \in 1..Len(grid_array) |->
                          BinCount(weighted, wavelength, grid_array, b - 1, 1)]
    IN <<[b \in 1..Len(grid_array) |->
             IF rebin_ivar[b] # Zero THEN RDiv(rebin_flux[b], rebin_ivar[b])
             ELSE rebin_flux[b]],
         rebin_ivar>>

\* the wavelength array Rebin.__call__ passes to rebin
RestWavelength(self, spectrum) ==
    [j \in 1..Len(spectrum.wavelength) |->
        LET rest == RDiv(spectrum.wavelength[j],
                         RAdd(One, spectrum.redshift))
        IN IF self.step_type = "lin" THEN rest ELSE Log10(rest)]

\* Rebin.__call__: the spectrum with its arrays on the common grid
Rebin_call(self, spectrum) ==
    LET rebinned == rebin(spectrum.flux, spectrum.ivar,
                          RestWavelength(self, spectrum),
                          self.common_wavelength_grid)
    IN set_flux_ivar_common_grid(spectrum, rebinned[1], rebinned[2])

(***************************************************************************)
(* MultipleRegionsNormalization                                            *)
(***************************************************************************)
\* the sum of the entries of an array at the positions in S
RECURSIVE RSum(_, _)
RSum(array, S) ==
    IF S = {} THEN Zero
    ELSE LET j == CHOOSE k \in S : TRUE
         IN RAdd(array[j], RSum(array, S \ {j}))

\* MultipleRegionsNormalization.__parse_config: the exception it raises, or None
NormalizerParseRaises(config) ==
    IF \E k \in 1..Len(config.intervals) :
           RLess(config.intervals[k][2], config.intervals[k][1])
    THEN "NormalizerError"
    ELSE IF config.main_interval < 0 THEN "NormalizerError"
    ELSE IF config.main_interval > Len(config.intervals)
         THEN "NormalizerError"
    ELSE None

\* MultipleRegionsNormalization.__init__ with a configuration that parses
NewNormalizer(config) ==
    [intervals |-> config.intervals,
     num_intervals |-> Len(config.intervals),
     main_interval |-> config.main_interval,
     num_processors |-> config.num_processors,
     norm_factors |-> Unset,
     correction_factors |-> [k \in 1..Len(config.intervals) |-> Zero]]

\* mutant: the pixel at the end of the interval is left out
RegionPixels_half_open(ivar, wavelength, interval) ==
    {j \in 1..Len(wavelength) :
        /\ RLeq(interval[1], wavelength[j])
        /\ RLess(wavelength[j], interval[2])
        /\ ivar[j] # Zero}

\* pos of compute_norm_factors: the pixels of one interval
RegionPixels(ivar, wavelength, interval) ==
    {j \in 1..Len(wavelength) :
        /\ RLeq(interval[1], wavelength[j])
        /\ RLeq(wavelength[j], interval[2])
        /\ ivar[j] # Zero}

\* a signal-to-noise norm_factor / sqrt(noise2), kept unevaluated
SignalToNoise(signal, noise2) == [signal |-> signal, noise2 |-> noise2]

\* compute_norm_factors (the function): norm factor, norm S/N and number of
\* pixels of each interval of one spectrum
compute_norm_factors(flux, ivar, wavelength, num_intervals, intervals) ==
    [index \in 1..num_intervals |->
        LET pos == RegionPixels(ivar, wavelength, intervals[index])
            num_pixels == Rat(Cardinality(pos), 1)
            inverse == [j \in 1..Len(ivar) |-> RDiv(One, ivar[j])]
        IN IF pos = {}
           THEN [norm_factor |-> NaN,
                 norm_sn |-> SignalToNoise(NaN, NaN),
                 num_pixels |-> Zero]
           ELSE [norm_factor |-> RDiv(RSum(flux, pos), num_pixels),
                 norm_sn |-> SignalToNoise(RDiv(RSum(flux, pos), num_pixels),
                                           RDiv(RSum(inverse, pos), num_pixels)),
                 num_pixels |-> num_pixels]]

\* the rows the sequential branch of compute_norm_factors (the method) builds
NormFactorRows(self, list) ==
    [i \in 1..Len(list) |->
        compute_norm_factors(list[i].flux, list[i].ivar, list[i].wavelength,
                             self.num_intervals, self.intervals)]

\* self.norm_factors["specid"] = [spectrum.specid for spectrum in spectra]
SpecidColumn(list) == [i \in 1..Len(list) |-> list[i].specid]

\* mutant: the rows are not asked for a measurement in the interval
CommonRows_main_only(rows, index, main) ==
    {i \in 1..Len(rows) : ~IsNaN(rows[i][main].norm_factor)}

\* the rows with a measurement in both the interval and the main interval
CommonRows(rows, index, main) ==
    {i \in 1..Len(rows) : /\ ~IsNaN(rows[i][index].norm_factor)
                          /\ ~IsNaN(rows[i][main].norm_factor)}

\* compute_correction_factors: the exception it raises, or None
\* (main_interval is counted from 0, the intervals of the model from 1)
CorrectionRaises(self, rows) ==
    IF \E index \in 1..self.num_intervals :
           /\ index # self.main_interval + 1
           /\ CommonRows(rows, index, self.main_interval + 1) = {}
    THEN "NormalizerError" ELSE None

\* the mean of the norm factor of an interval over the rows in S
MeanNormFactor(rows, index, S) ==
    RDiv(RSum([i \in 1..Len(rows) |-> rows[i][index].norm_factor], S),
         Rat(Cardinality(S), 1))

\* compute_correction_factors
compute_correction_factors(self, rows) ==
    [index \in 1..self.num_intervals |->
        IF index = self.main_interval + 1 THEN One
        ELSE LET aux == CommonRows(rows, index, self.main_interval + 1)
             IN RDiv(MeanNormFactor(rows, self.main_interval + 1, aux),
                     MeanNormFactor(rows, index, aux))]

\* row[cols].values.argmax(): the first interval with the most pixels
ArgMaxPixels(row) ==
    CHOOSE index \in 1..Len(row) :
        /\ \A k \in 1..Len(row) :
               RLeq(row[k].num_pixels, row[index].num_pixels)
        /\ \A k \in 1..(index - 1) :
               RLess(row[k].num_pixels, row[index].num_pixels)

\* select_final_normalisation_factor: one row of the finished table
select_final_normalisation_factor(row, correction_factors) ==
    LET selected_interval == ArgMaxPixels(row)
    IN [norm_factor |-> RMul(row[selected_interval].norm_factor,
                             correction_factors[selected_interval]),
        norm_sn |-> row[selected_interval].norm_sn,
        chosen_interval |-> selected_interval - 1]

\* the table compute_norm_factors (the method) leaves in self.norm_factors
NormFactorTable(self, list) ==
    LET rows == NormFactorRows(self, list)
        correction == compute_correction_factors(self, rows)
    IN [i \in 1..Len(list) |->
           [specid |-> SpecidColumn(list)[i],
            intervals |-> rows[i],
            final |-> select_final_normalisation_factor(rows[i], correction)]]

\* the norm factor normalize_spectrum looks up: the first row of the specid
LookupNormFactor(table, specid) ==
    LET first == CHOOSE i \in 1..Len(table) :
                     /\ table[i].specid = specid
                     /\ \A k \in 1..(i - 1) : table[k].specid # specid
    IN table[first].final.norm_factor

\* normalize_spectrum: the exception it raises, or None
NormalizeRaises(table, spectrum) ==
    IF \A i \in 1..Len(table) : table[i].specid # spectrum.specid
    THEN "IndexError"
    ELSE IF IsNone(spectrum.flux_common_grid)
         THEN IF RPos(LookupNormFactor(table, spectrum.specid))
              THEN "TypeError" ELSE "AttributeError"
    ELSE None

\* mutant: the flux is divided by every factor that is not zero
normalize_spectrum_nonzero(table, spectrum) ==
    LET norm_factor == LookupNormFactor(table, spectrum.specid)
        flux_common_grid == Value(spectrum.flux_common_grid)
    IN IF ~IsNaN(norm_factor) /\ norm_factor # Zero
       THEN set_normalized_flux(spectrum,
                [b \in 1..Len(flux_common_grid) |->
                    RDiv(flux_common_grid[b], norm_factor)])
       ELSE set_normalized_flux(spectrum,
                [b \in 1..Len(flux_common_grid) |-> NaN])

\* normalize_spectrum on a rebinned spectrum
normalize_spectrum(table, spectrum) ==
    LET norm_factor == LookupNormFactor(table, spectrum.specid)
        flux_common_grid == Value(spectrum.flux_common_grid)
    IN IF RPos(norm_factor)
       THEN set_normalized_flux(spectrum,
                [b \in 1..Len(flux_common_grid) |->
                    RDiv(flux_common_grid[b], norm_factor)])
       ELSE set_normalized_flux(spectrum,
                [b \in 1..Len(flux_common_grid) |-> NaN])

(***************************************************************************)
(* Construction of the stackers.  The outcome of a constructor is the      *)
(* exception it raises (or None), the stacker it yields (or None) and the  *)
(* grid and number of grid assignments it leaves behind.                   *)
(***************************************************************************)
Outcome(raised, made, grid, count) ==
    [raised |-> raised, stacker |-> made, grid |-> grid, assigned |-> count]

\* Stacker.__init__: the exception it raises, or None
StackerInitRaises(grid) == IF IsNone(grid) THEN "StackerError" ELSE None

\* MeanStacker.__parse_config: the exception it raises, or None
MeanStackerParseRaises(config) ==
    IF RLess(config.sigma_I, Zero) THEN "StackerError" ELSE None

\* MeanStacker.__init__
NewMeanStacker(config, grid, count) ==
    IF StackerInitRaises(grid) # None
    THEN Outcome(StackerInitRaises(grid), Unset, grid, count)
    ELSE IF MeanStackerParseRaises(config) # None
    THEN Outcome(MeanStackerParseRaises(config), Unset, grid, count)
    ELSE Outcome(None,
                 Holding([type |-> "MeanStacker",
                          sigma_i2 |-> RMul(config.sigma_I, config.sigma_I),
                          stacks |-> <<>>,
                          result |-> NewStacker(Value(grid))]),
                 grid, count)

\* mutant: every file read installs its wavelengths as the common grid
load_stacks_installing(stack_list, k, grid, count, stacks) ==
    Outcome(None,
            [f \in 1..Len(stack_list) |->
                <<stack_list[f].flux, stack_list[f].weight>>],
            Holding(stack_list[Len(stack_list)].wavelength),
            count + Len(stack_list))

\* load_stacks of merge_stacker.py, from file k on: it reads the extension
\* STACKED_SPECTRUM of each file and checks its wavelengths against the grid
RECURSIVE load_stacks(_, _, _, _, _)
load_stacks(stack_list, k, grid, count, stacks) ==
    IF k > Len(stack_list) THEN Outcome(None, stacks, grid, count)
    ELSE LET file == stack_list[k]
         IN IF file.hdu # "STACKED_SPECTRUM"
            THEN Outcome("KeyError", stacks, grid, count)
            ELSE IF IsNone(grid)
            THEN load_stacks(stack_list, k + 1, Holding(file.wavelength),
                             count + 1,
                             Append(stacks, <<file.flux, file.weight>>))
            ELSE IF Len(Value(grid)) # Len(file.wavelength)
            THEN Outcome("StackerError", stacks, grid, count)
            ELSE IF ~AllClose(Value(grid), file.wavelength)
            THEN Outcome("StackerError", stacks, grid, count)
            ELSE load_stacks(stack_list, k + 1, grid, count,
                             Append(stacks, <<file.flux, file.weight>>))

\* load_stacks of merge_stacker_utils.py: the same checks on the extension
\* STACK
RECURSIVE utils_load_stacks(_, _, _, _, _)
utils_load_stacks(stack_list, k, grid, count, stacks) ==
    IF k > Len(stack_list) THEN Outcome(None, stacks, grid, count)
    ELSE LET file == stack_list[k]
         IN IF file.hdu # "STACK"
            THEN Outcome("KeyError", stacks, grid, count)
            ELSE IF IsNone(grid)
            THEN utils_load_stacks(stack_list, k + 1,
                                   Holding(file.wavelength), count + 1,
                                   Append(stacks, <<file.flux, file.weight>>))
            ELSE IF Len(Value(grid)) # Len(file.wavelength)
            THEN Outcome("StackerError", stacks, grid, count)
            ELSE IF ~AllClose(Value(grid), file.wavelength)
            THEN Outcome("StackerError", stacks, grid, count)
            ELSE utils_load_stacks(stack_list, k + 1, grid, count,
                                   Append(stacks, <<file.flux, file.weight>>))

\* MergeStacker.__init__ as MergeMeanStacker inherits it
NewMergeMeanStacker(config, grid, count) ==
    IF StackerInitRaises(grid) # None
    THEN Outcome(StackerInitRaises(grid), Unset, grid, count)
    ELSE LET loaded == load_stacks(config.stack_list, 1, grid, count, <<>>)
         IN IF loaded.raised # None
            THEN Outcome(loaded.raised, Unset, loaded.grid, loaded.assigned)
            ELSE Outcome(None,
                         Holding([type |-> "MergeMeanStacker",
                                  sigma_i2 |-> Zero,
                                  stacks |-> loaded.stacker,
                                  result |-> NewStacker(Value(grid))]),
                         loaded.grid, loaded.assigned)

\* SplitMeanStacker.__init__ passes groups_info and split_catalogue to
\* SplitStacker.__init__(self, config), which takes neither
NewSplitMeanStacker(config, grid, count) ==
    Outcome("TypeError", Unset, grid, count)

\* Stacker.__init__ called on the abstract class itself
NewAbstractStacker(config, grid, count) ==
    IF StackerInitRaises(grid) # None
    THEN Outcome(StackerInitRaises(grid), Unset, grid, count)
    ELSE Outcome(None,
                 Holding([type |-> "Stacker",
                          sigma_i2 |-> Zero,
                          stacks |-> <<>>,
                          result |-> NewStacker(Value(grid))]),
                 grid, count)

\* stacker_type(stacker_arguments)
Construct(config, grid, count) ==
    IF config.type = "Stacker" THEN NewAbstractStacker(config, grid, count)
    ELSE IF config.type = "MeanStacker"
    THEN NewMeanStacker(config, grid, count)
    ELSE IF config.type = "MergeMeanStacker"
    THEN NewMergeMeanStacker(config, grid, count)
    ELSE NewSplitMeanStacker(config, grid, count)

\* the arrays MeanStacker.stack reads from a list of normalized spectra
StackerInput(list) ==
    [i \in 1..Len(list) |->
        [normalized_flux |-> Value(list[i].normalized_flux),
         ivar_common_grid |-> Value(list[i].ivar_common_grid)]]

\* self.stacker.stack(self.spectra): the stacker after the call, its status
\* naming the exception the call raised
Stacker_stack(self, list) ==
    IF self.type = "Stacker"
    THEN [self EXCEPT !.result.status = "StackerError"]
    ELSE IF self.type = "MergeMeanStacker"
    THEN [self EXCEPT !.result =
              MergeMeanStacker_stack(self.result, list, self.stacks)]
    ELSE IF IsNone(list)
    THEN [self EXCEPT !.result.status = "TypeError"]
    ELSE IF \E i \in 1..Len(Value(list)) :
                IsNone(Value(list)[i].normalized_flux)
    THEN [self EXCEPT !.result.status = "TypeError"]
    ELSE [self EXCEPT !.result =
              MeanStacker_stack(self.result, StackerInput(Value(list)),
                                self.sigma_i2)]

(***************************************************************************)
(* SpecRun: a run of StackingInterface.  The interface is driven either by *)
(* main of bin/stacking.py or by a caller of the package that also calls   *)
(* rebin_data after read_data.  iface.pc is the method about to be called  *)
(* or the position inside the running method.                              *)
(***************************************************************************)
\* the longest list of spectra read, and the length that makes rebin_data
\* use chunks of two spectra with two processors
MaxRunSpectra == 2
ChunkedSpectra == 12

Drivers == {"main", "caller"}
RunTypes == {"normal", "merge stack"}
NumProcessors == {1, 2}
StepTypes == {"lin", "log"}
StackerTypes == {"MeanStacker", "MergeMeanStacker", "SplitMeanStacker"}

\* the section [rebin] of the configuration
RebinArgs(step_type) ==
    IF step_type = "lin"
    THEN [min_wavelength |-> Rat(1000, 1), max_wavelength |-> Rat(1003, 1),
          step_wavelength |-> One, step_type |-> "lin"]
    ELSE [min_wavelength |-> Rat(10, 1), max_wavelength |-> Rat(1000, 1),
          step_wavelength |-> One, step_type |-> "log"]

\* the rest-frame wavelengths of the spectra on disk
RestFrame(step_type) ==
    IF step_type = "lin" THEN <<1000, 1001, 1003>> ELSE <<10, 100, 1000>>

\* the k-th spectrum on disk: every second one at redshift 1, every third
\* one with a masked pixel, every fourth one fully masked, the fluxes in a
\* cycle of three
DiskSpectrum(step_type, k) ==
    LET redshift == IF k % 2 = 0 THEN 1 ELSE 0
        level == 1 + (k % 3)
    IN NewSpectrum(
        100 + k,
        <<Rat(level, 1), Rat(level, 1), Rat(3 * level, 1)>>,
        <<IF k % 4 = 0 THEN Zero ELSE One,
          IF k % 3 = 0 \/ k % 4 = 0 THEN Zero ELSE One,
          IF k % 4 = 0 THEN Zero ELSE Rat(2, 1)>>,
        [j \in 1..3 |-> Rat((1 + redshift) * RestFrame(step_type)[j], 1)],
        Rat(redshift, 1))

\* what reader.read_data() returns
ReadSpectra(step_type, n) == [k \in 1..n |-> DiskSpectrum(step_type, k)]

\* the section [normalizer] of the configuration
NormalizerArgs(step_type, num_processors) ==
    [intervals |->
        IF step_type = "lin"
        THEN <<<<Rat(1001, 1), Rat(2002, 1)>>, <<Rat(1003, 1), Rat(2006, 1)>>>>
        ELSE <<<<Rat(100, 1), Rat(200, 1)>>, <<Rat(1000, 1), Rat(2000, 1)>>>>,
     main_interval |-> 0,
     num_processors |-> num_processors]

\* a file holding a partial stack, with the name of its table extension
StackFile(hdu, wavelength) ==
    [hdu |-> hdu, wavelength |-> wavelength,
     flux |-> [b \in 1..Len(wavelength) |-> Rat(2, 1)],
     weight |-> [b \in 1..Len(wavelength) |-> One]]

\* the lists of files of the option 'stack list': files on the grid of the
\* run, a file with fewer wavelengths, a file with other wavelengths, and a
\* file with the extension STACK that the writers give it
StackLists(grid) ==
    LET good == StackFile("STACKED_SPECTRUM", grid)
    IN {<<good, good>>,
        <<good, StackFile("STACKED_SPECTRUM", Tail(grid))>>,
        <<good, StackFile("STACKED_SPECTRUM",
                          [b \in 1..Len(grid) |-> RAdd(grid[b], One)])>>,
        <<StackFile("STACK", grid)>>}

\* the section [stacker] of the configuration
StackerArgs(type, stack_list) ==
    [type |-> type, sigma_I |-> Zero, stack_list |-> stack_list]

\* the sections [stacker] of the model: only the merging stacker reads the
\* option 'stack list'
StackerConfigs(grid) ==
    {StackerArgs(type, <<>>) : type \in StackerTypes \ {"MergeMeanStacker"}}
    \cup {StackerArgs("MergeMeanStacker", stack_list) :
              stack_list \in StackLists(grid)}

\* Config(config_file): the configurations of the model with one step type
ConfigsOf(step_type) ==
    {[run_type |-> run_type,
      num_processors |-> num_processors,
      rebin_args |-> RebinArgs(step_type),
      reader |-> ReadSpectra(step_type, n),
      normalizer |-> NormalizerArgs(step_type, normalizer_processors),
      stacker |-> stacker_args] :
        run_type \in RunTypes, num_processors \in NumProcessors,
        n \in (0..MaxRunSpectra) \cup {ChunkedSpectra},
        normalizer_processors \in NumProcessors,
        stacker_args \in StackerConfigs(SpectrumGrid(RebinArgs(step_type)))}

Configs == UNION {ConfigsOf(step_type) : step_type \in StepTypes}

\* StackingInterface.__init__
NewInterface(driver, config) ==
    [driver |-> driver, config |-> config,
     num_processors |-> Unset, spectra |-> Unset, rebin |-> Unset,
     normalize_spectra_flag |-> Unset, read_data_flag |-> Unset,
     rebin_data_flag |-> Unset, stack_spectra_flag |-> Unset,
     write_results_flag |-> Unset,
     pc |-> "load_config", cursor |-> 0, error |-> None, at |-> None,
     written |-> Unset]

\* `if self.some_flag:` is taken for True only
Flag(flag) == ~IsNone(flag) /\ Value(flag)

\* setup_run: the exception it raises, or None
SetupRunRaises(config) ==
    IF config.run_type \notin {"normal", "merge norm factors", "merge stack"}
    THEN "StackingError" ELSE None

\* setup_run: the flags of the run type
setup_run(self) ==
    LET run_type == self.config.run_type
    IN [self EXCEPT
        !.normalize_spectra_flag = Holding(run_type # "merge stack"),
        !.read_data_flag = Holding(run_type = "normal"),
        !.rebin_data_flag = Holding(run_type = "normal"),
        !.stack_spectra_flag = Holding(run_type # "merge norm factors"),
        !.write_results_flag = Holding(run_type # "merge norm factors")]

\* the method the driver calls after the named one returns
AfterCall(driver, method) ==
    IF method = "load_config" THEN "read_data"
    ELSE IF method = "read_data"
         THEN IF driver = "main" THEN "normalize_spectra" ELSE "rebin_data"
    ELSE IF method = "rebin_data" THEN "normalize_spectra"
    ELSE IF method = "normalize_spectra" THEN "stack_spectra"
    ELSE IF method = "stack_spectra" THEN "write_results"
    ELSE "done"

\* the method returns to the driver
Return(self, method) == [self EXCEPT !.pc = AfterCall(self.driver, method)]

\* the method raises: the exception leaves main and the run is over
Raise(self, error) ==
    [self EXCEPT !.pc = "raised", !.error = error, !.at = self.pc]

\* the method waits for a result that never comes
Hang(self) == [self EXCEPT !.pc = "hung", !.at = self.pc]

InitRun ==
    /\ common_wavelength_grid = Unset
    /\ assigned = 0
    /\ iface \in {NewInterface(driver, config) :
                      driver \in Drivers, config \in Configs}
    /\ normalizer = Unset
    /\ pool = Unset
    /\ stacker = Unset
    /\ last_call = None
    /\ spectra = None /\ sigma_i2 = None
    /\ cut = None /\ partA = None /\ partB = None
    /\ whole = None /\ merged = None
    /\ rng = None /\ boots = None

\* load_config: Config, setup_run and the Rebin that sets the common grid
LoadConfig ==
    /\ iface.pc = "load_config"
    /\ LET configured == [iface EXCEPT !.num_processors =
                              Holding(iface.config.num_processors)]
           args == iface.config.rebin_args
       IN IF SetupRunRaises(iface.config) # None
          THEN /\ iface' = Raise(configured, SetupRunRaises(iface.config))
               /\ UNCHANGED <<common_wavelength_grid, assigned>>
          ELSE IF RebinParseRaises(args) # None
          THEN /\ iface' = Raise(setup_run(configured), RebinParseRaises(args))
               /\ UNCHANGED <<common_wavelength_grid, assigned>>
          ELSE /\ iface' = Return([setup_run(configured) EXCEPT
                                      !.rebin = Holding(NewRebin(args))],
                                  "load_config")
               /\ common_wavelength_grid' = Holding(SpectrumGrid(args))
               /\ assigned' = assigned + 1
    /\ UNCHANGED <<spectra, sigma_i2, stackVars, bootVars, last_call, normalizer, pool,
                   stacker>>

\* read_data
ReadData ==
    /\ iface.pc = "read_data"
    /\ iface' = IF Flag(iface.read_data_flag)
                THEN Return([iface EXCEPT !.spectra =
                                 Holding(iface.config.reader)], "read_data")
                ELSE Return(iface, "read_data")
    /\ UNCHANGED <<common_wavelength_grid, spectra, sigma_i2, stackVars,
                   bootVars, last_call, normalizer, pool, stacker, assigned>>

(***************************************************************************)
(* rebin_data.  With more than one processor the list is cut in chunks     *)
(* that the processes of a pool rebin; pool.map returns when every chunk   *)
(* is done.                                                                *)
(***************************************************************************)
\* chunksize = max(1, int(len(self.spectra) / self.num_processors / 3))
ChunkSize(length, num_processors) ==
    LET chunksize == Trunc(RDiv(RDiv(Rat(length, 1), Rat(num_processors, 1)),
                                Rat(3, 1)))
    IN IF chunksize > 1 THEN chunksize ELSE 1

\* the tasks of pool.map: consecutive chunks of the list, the last one shorter
Chunks(list, chunksize) ==
    [c \in 1..((Len(list) + chunksize - 1) \div chunksize) |->
        [i \in 1..(IF c * chunksize <= Len(list) THEN chunksize
                   ELSE Len(list) - (c - 1) * chunksize) |->
            list[(c - 1) * chunksize + i]]]

\* context.Pool(processes=...) with the tasks of a map handed to it
NewPool(processes, tasks) ==
    [state |-> "running",
     tasks |-> tasks,
     next |-> 1,
     workers |-> [w \in 1..processes |-> 0],
     results |-> [c \in 1..Len(tasks) |-> Unset],
     completed |-> <<>>]

\* the concatenation of the lists of a list
RECURSIVE Flatten(_)
Flatten(lists) ==
    IF Len(lists) = 0 THEN <<>> ELSE Head(lists) \o Flatten(Tail(lists))

\* mutant: the results joined in the order the chunks were completed
MapResult_completion_order(self) ==
    Flatten([k \in 1..Len(self.completed) |->
                Value(self.results[self.completed[k]])])

\* the list pool.map returns: the results of the chunks in the order of
\* the tasks
MapResult(self) ==
    Flatten([c \in 1..Len(self.tasks) |-> Value(self.results[c])])

\* rebin_data up to the call of pool.map, or all of it when sequential
RebinData ==
    /\ iface.pc = "rebin_data"
    /\ IF ~Flag(iface.rebin_data_flag)
       THEN /\ iface' = Return(iface, "rebin_data")
            /\ pool' = pool
       ELSE IF IsNone(iface.spectra)
       THEN /\ iface' = Raise(iface, "TypeError")
            /\ pool' = pool
       ELSE IF Value(iface.num_processors) > 1
       THEN /\ iface' = [iface EXCEPT !.pc = "rebin_data.map"]
            /\ pool' = Holding(NewPool(Value(iface.num_processors),
                           Chunks(Value(iface.spectra),
                                  ChunkSize(Len(Value(iface.spectra)),
                                            Value(iface.num_processors)))))
       ELSE /\ iface' = Return([iface EXCEPT !.spectra = Holding(
                            [i \in 1..Len(Value(iface.spectra)) |->
                                Rebin_call(Value(iface.rebin),
                                           Value(iface.spectra)[i])])],
                               "rebin_data")
            /\ pool' = pool
    /\ UNCHANGED <<common_wavelength_grid, spectra, sigma_i2, stackVars,
                   bootVars, last_call, normalizer, stacker, assigned>>

\* an idle process of the pool takes the next chunk
WorkerTake(w) ==
    /\ iface.pc = "rebin_data.map"
    /\ Value(pool).workers[w] = 0
    /\ Value(pool).next <= Len(Value(pool).tasks)
    /\ pool' = Holding([Value(pool) EXCEPT !.workers[w] = Value(pool).next,
                                           !.next = @ + 1])
    /\ UNCHANGED <<common_wavelength_grid, spectra, sigma_i2, stackVars,
                   bootVars, last_call, iface, normalizer, stacker, assigned>>

\* a process has called self.rebin on every spectrum of its chunk
WorkerFinish(w) ==
    /\ iface.pc = "rebin_data.map"
    /\ Value(pool).workers[w] # 0
    /\ LET c == Value(pool).workers[w]
           chunk == Value(pool).tasks[c]
       IN pool' = Holding([Value(pool) EXCEPT
               !.workers[w] = 0,
               !.results[c] = Holding([i \in 1..Len(chunk) |->
                                  Rebin_call(Value(iface.rebin), chunk[i])]),
               !.completed = Append(@, c)])
    /\ UNCHANGED <<common_wavelength_grid, spectra, sigma_i2, stackVars,
                   bootVars, last_call, iface, normalizer, stacker, assigned>>

\* pool.map returns, the `with` block terminates the pool, rebin_data returns
MapReturn ==
    /\ iface.pc = "rebin_data.map"
    /\ \A c \in 1..Len(Value(pool).tasks) : ~IsNone(Value(pool).results[c])
    /\ iface' = Return([iface EXCEPT !.spectra = Holding(MapResult(Value(pool)))],
                       "rebin_data")
    /\ pool' = Holding([Value(pool) EXCEPT !.state = "terminated"])
    /\ UNCHANGED <<common_wavelength_grid, spectra, sigma_i2, stackVars,
                   bootVars, last_call, normalizer, stacker, assigned>>

(***************************************************************************)
(* normalize_spectra                                                       *)
(***************************************************************************)
\* normalize_spectra up to the loop over the spectra.  With more than one
\* processor compute_norm_factors hands the spectra to pool.imap and leaves
\* the `with` block, which terminates the pool, before reading any result:
\* the first result, the TypeError of calling compute_norm_factors with one
\* tuple for its five arguments, has arrived by then or never will.
NormalizeSpectra(arrived) ==
    /\ iface.pc = "normalize_spectra"
    /\ LET args == iface.config.normalizer
           made == NewNormalizer(args)
           list == Value(iface.spectra)
           rows == NormFactorRows(made, list)
           computed == [made EXCEPT
                           !.norm_factors = Holding(NormFactorTable(made, list)),
                           !.correction_factors =
                               compute_correction_factors(made, rows)]
       IN IF ~Flag(iface.normalize_spectra_flag)
          THEN /\ iface' = Return(iface, "normalize_spectra")
               /\ normalizer' = normalizer
          ELSE IF NormalizerParseRaises(args) # None
          THEN /\ iface' = Raise(iface, NormalizerParseRaises(args))
               /\ normalizer' = normalizer
          ELSE IF IsNone(iface.spectra)
          THEN /\ iface' = Raise(iface, "TypeError")
               /\ normalizer' = Holding(made)
          ELSE IF made.num_processors > 1 /\ Len(list) > 0
          THEN /\ iface' = IF arrived THEN Raise(iface, "TypeError")
                           ELSE Hang(iface)
               /\ normalizer' = Holding(made)
          ELSE IF CorrectionRaises(made, rows) # None
          THEN /\ iface' = Raise(iface, CorrectionRaises(made, rows))
               /\ normalizer' = Holding(made)
          ELSE /\ normalizer' = Holding(computed)
               /\ iface' =
                   IF Value(iface.num_processors) > 1
                   THEN Raise(iface, "AttributeError")
                   ELSE IF Len(list) = 0
                   THEN Return(iface, "normalize_spectra")
                   ELSE [iface EXCEPT !.pc = "normalize_spectra.loop",
                                      !.cursor = 1]
    /\ UNCHANGED <<common_wavelength_grid, spectra, sigma_i2, stackVars,
                   bootVars, last_call, pool, stacker, assigned>>

\* normalizer.normalize_spectrum(spectrum) on the next spectrum of the list
NormalizeSpectrum ==
    /\ iface.pc = "normalize_spectra.loop"
    /\ LET table == Value(Value(normalizer).norm_factors)
           list == Value(iface.spectra)
           spectrum == list[iface.cursor]
           normalized == normalize_spectrum(table, spectrum)
       IN IF NormalizeRaises(table, spectrum) # None
          THEN iface' = Raise(iface, NormalizeRaises(table, spectrum))
          ELSE IF SetNormalizedRaises(common_wavelength_grid,
                      Value(normalized.normalized_flux)) # None
          THEN iface' = Raise(iface, "SpectrumError")
          ELSE LET done == [iface EXCEPT
                      !.spectra = Holding([list EXCEPT
                                              ![iface.cursor] = normalized]),
                      !.cursor = @ + 1]
               IN iface' = IF iface.cursor = Len(list)
                           THEN Return(done, "normalize_spectra")
                           ELSE done
    /\ UNCHANGED <<common_wavelength_grid, spectra, sigma_i2, stackVars,
                   bootVars, last_call, normalizer, pool, stacker, assigned>>

(***************************************************************************)
(* stack_spectra and write_results                                         *)
(***************************************************************************)
\* self.stacker = stacker_type(stacker_arguments)
StackSpectra ==
    /\ iface.pc = "stack_spectra"
    /\ LET made == Construct(iface.config.stacker, common_wavelength_grid,
                             assigned)
       IN IF ~Flag(iface.stack_spectra_flag)
          THEN /\ iface' = Return(iface, "stack_spectra")
               /\ UNCHANGED <<common_wavelength_grid, stacker, assigned>>
          ELSE /\ common_wavelength_grid' = made.grid
               /\ assigned' = made.assigned
               /\ IF made.raised # None
                  THEN /\ iface' = Raise(iface, made.raised)
                       /\ stacker' = stacker
                  ELSE /\ iface' = [iface EXCEPT !.pc = "stack_spectra.stack"]
                       /\ stacker' = made.stacker
    /\ UNCHANGED <<spectra, sigma_i2, stackVars, bootVars, last_call, normalizer, pool>>

\* self.stacker.stack(self.spectra)
StackerStack ==
    /\ iface.pc = "stack_spectra.stack"
    /\ LET after == Stacker_stack(Value(stacker), iface.spectra)
       IN /\ stacker' = Holding(after)
          /\ iface' = IF after.result.status = "stacked"
                      THEN Return(iface, "stack_spectra")
                      ELSE Raise(iface, after.result.status)
    /\ UNCHANGED <<common_wavelength_grid, spectra, sigma_i2, stackVars,
                   bootVars, last_call, normalizer, pool, assigned>>

\* write_results: the writer saves the grid and the arrays of the stacker
WriteResults ==
    /\ iface.pc = "write_results"
    /\ iface' =
        IF Flag(iface.write_results_flag)
        THEN Return([iface EXCEPT !.written = Holding(
                        [wavelength |-> Value(common_wavelength_grid),
                         stacked_flux |-> Value(stacker).result.stacked_flux,
                         stacked_weight |->
                             Value(stacker).result.stacked_weight])],
                    "write_results")
        ELSE Return(iface, "write_results")
    /\ UNCHANGED <<common_wavelength_grid, spectra, sigma_i2, stackVars,
                   bootVars, last_call, normalizer, pool, stacker, assigned>>

NextRun ==
    \/ LoadConfig
    \/ ReadData
    \/ RebinData
    \/ \E w \in NumProcessors : WorkerTake(w)
    \/ \E w \in NumProcessors : WorkerFinish(w)
    \/ MapReturn
    \/ \E arrived \in BOOLEAN : NormalizeSpectra(arrived)
    \/ NormalizeSpectrum
    \/ StackSpectra
    \/ StackerStack
    \/ WriteResults

SpecRun == InitRun /\ [][NextRun]_vars

(***************************************************************************)
(* Claims on the run.                                                      *)
(***************************************************************************)
\* what the sequential code computes from the spectra of a configuration
SequentialRebinned(config) ==
    [i \in 1..Len(config.reader) |->
        Rebin_call(NewRebin(config.rebin_args), config.reader[i])]

SequentialTable(config) ==
    NormFactorTable(NewNormalizer(config.normalizer), config.reader)

SequentialNormalized(config) ==
    [i \in 1..Len(config.reader) |->
        normalize_spectrum(SequentialTable(config),
                           SequentialRebinned(config)[i])]

\* a normal run that rebins, with spectra to work on
RebinningRun ==
    /\ iface.driver = "caller"
    /\ iface.config.run_type = "normal"
    /\ Len(iface.config.reader) > 0

\* the positions inside rebin_data and normalize_spectra
RebinAndNormalize ==
    {"rebin_data", "rebin_data.map", "normalize_spectra",
     "normalize_spectra.loop"}

\* C4: a run with more than one worker process (the option num processors
\* of the run, which the normalizer inherits) completes rebinning and
\* normalization and leaves the same rebinned arrays, the same table of
\* normalization factors and the same normalized fluxes as the sequential
\* code.
C4_ParallelAsSequential ==
    (/\ RebinningRun
     /\ iface.config.num_processors > 1
     /\ iface.config.normalizer.num_processors > 1)
    => /\ iface.pc \in {"raised", "hung"} => iface.at \notin RebinAndNormalize
       /\ iface.pc = "normalize_spectra"
          => Value(iface.spectra) = SequentialRebinned(iface.config)
       /\ iface.pc = "stack_spectra"
          => /\ Value(Value(normalizer).norm_factors)
                    = SequentialTable(iface.config)
             /\ Value(iface.spectra) = SequentialNormalized(iface.config)

\* the parallel rebinning itself returns what the sequential one does
C4_RebinnedInParallel ==
    /\ RebinningRun
    /\ iface.config.num_processors > 1
    /\ iface.pc = "raised"
    /\ iface.at = "normalize_spectra"
    /\ Value(iface.spectra) = SequentialRebinned(iface.config)

C6_RebinnedThenNormalized ==
    (iface.driver = "main" /\ iface.config.run_type = "normal")
    => /\ iface.pc = "normalize_spectra.loop"
          => ~IsNone(Value(iface.spectra)[iface.cursor].flux_common_grid)
       /\ iface.pc = "stack_spectra.stack"
          => \A i \in 1..Len(Value(iface.spectra)) :
                 ~IsNone(Value(iface.spectra)[i].normalized_flux)

\* C7: the common grid is assigned exactly once in a run, before any
\* stacker is constructed, and stays the grid the Rebin of load_config
\* installed.
C7_GridAssignedOnce ==
    /\ assigned <= 1
    /\ assigned = 0 <=> IsNone(common_wavelength_grid)
    /\ (iface.pc # "load_config" /\ iface.at # "load_config") => assigned = 1
    /\ ~IsNone(common_wavelength_grid)
       => Value(common_wavelength_grid) = SpectrumGrid(iface.config.rebin_args)
    /\ (~IsNone(stacker) \/ iface.pc = "stack_spectra") => assigned = 1

\* a merge run has loaded its partial stacks and stacked them
C7_Witness ==
    /\ iface.config.run_type = "merge stack"
    /\ iface.pc = "done"
    /\ ~IsNone(stacker)
    /\ Len(Value(stacker).stacks) = 2
    /\ Value(stacker).result.status = "stacked"
    /\ assigned = 1

(***************************************************************************)
(* SpecStackers: stackers constructed and used by a caller of the package, *)
(* before or after Spectrum.common_wavelength_grid is set.  The name       *)
(* stacker is bound by stacker = stacker_type(config); a constructor that  *)
(* raises leaves the binding as it was.                                    *)
(***************************************************************************)
\* the number of calls of Spectrum.set_common_wavelength_grid followed
MaxAssignments == 2

\* the grids the caller sets
CallerGrids == {<<Rat(1000, 1), Rat(1001, 1)>>,
                <<Rat(1000, 1), Rat(1001, 1), Rat(1002, 1)>>}

\* the classes the caller constructs
CallerTypes == {"Stacker", "MeanStacker", "MergeMeanStacker",
                "SplitMeanStacker"}

\* the values of the option 'sigma_I'
SigmaVals == {Rat(0 - 1, 1), Zero, One}

\* the sections [stacker] the caller passes
CallerConfigs ==
    {[type |-> type, sigma_I |-> sigma, stack_list |-> <<>>] :
        type \in CallerTypes \ {"MergeMeanStacker"}, sigma \in SigmaVals}
    \cup UNION {{StackerArgs("MergeMeanStacker", stack_list) :
                    stack_list \in StackLists(grid)} : grid \in CallerGrids}

\* a rebinned and normalized spectrum on a grid of the given size
NormalizedSpectrum(size, level) ==
    [normalized_flux |-> Holding([b \in 1..size |-> Rat(level * b, 1)]),
     ivar_common_grid |-> Holding([b \in 1..size |-> Rat(level, 1)])]

\* the arguments of stack: None, an empty list, lists of spectra
CallerSpectra(size) ==
    {Unset, Holding(<<>>), Holding(<<NormalizedSpectrum(size, 1)>>),
     Holding(<<NormalizedSpectrum(size, 1), NormalizedSpectrum(size, 2)>>)}

\* the record of a call on a stacker: the grid it found, what it raised and
\* whether the constructor yielded a stacker
Call(call, type, grid, raised, made) ==
    [call |-> call, type |-> type, grid |-> grid, raised |-> raised,
     made |-> made]

InitStackers ==
    /\ common_wavelength_grid = Unset
    /\ assigned = 0
    /\ stacker = Unset
    /\ last_call = Call("none", "none", Unset, None, FALSE)
    /\ iface = None /\ normalizer = None /\ pool = None
    /\ spectra = None /\ sigma_i2 = None
    /\ cut = None /\ partA = None /\ partB = None
    /\ whole = None /\ merged = None
    /\ rng = None /\ boots = None

\* Spectrum.set_common_wavelength_grid(grid)
SetCommonWavelengthGrid(grid) ==
    /\ assigned < MaxAssignments
    /\ common_wavelength_grid' = Holding(grid)
    /\ assigned' = assigned + 1
    /\ UNCHANGED <<spectra, sigma_i2, stackVars, bootVars, iface, normalizer,
                   pool, stacker, last_call>>

\* stacker = stacker_type(config)
ConstructStacker(config) ==
    /\ LET made == Construct(config, common_wavelength_grid, assigned)
       IN /\ common_wavelength_grid' = made.grid
          /\ assigned' = made.assigned
          /\ stacker' = IF made.raised # None THEN stacker ELSE made.stacker
          /\ last_call' = Call("construct", config.type,
                               common_wavelength_grid, made.raised,
                               made.raised = None)
    /\ UNCHANGED <<spectra, sigma_i2, stackVars, bootVars, iface, normalizer,
                   pool>>

\* stacker.stack(spectra), with spectra as long as the arrays of the stacker
CallStack ==
    /\ ~IsNone(stacker)
    /\ \E list \in CallerSpectra(Len(Value(stacker).result.stacked_flux)) :
          LET after == Stacker_stack(Value(stacker), list)
          IN /\ stacker' = Holding(after)
             /\ last_call' =
                   Call("stack", after.type, common_wavelength_grid,
                        IF after.result.status = "stacked" THEN None
                        ELSE after.result.status,
                        FALSE)
    /\ UNCHANGED <<common_wavelength_grid, spectra, sigma_i2, stackVars,
                   bootVars, iface, normalizer, pool, assigned>>

NextStackers ==
    \/ \E grid \in CallerGrids : SetCommonWavelengthGrid(grid)
    \/ \E config \in CallerConfigs : ConstructStacker(config)
    \/ CallStack

SpecStackers == InitStackers /\ [][NextStackers]_vars

\* C10: a constructor called while the common grid is unset raises
\* StackerError and yields no stacker; a constructor that yields a stacker
\* found the grid set and leaves stacked_flux and stacked_weight all zeros,
\* as long as the grid, until stack is called.
C10_StackerNeedsGrid ==
    /\ (last_call.call = "construct" /\ IsNone(last_call.grid)) =>
            (last_call.raised = "StackerError" /\ ~last_call.made)
    /\ (last_call.call = "construct" /\ last_call.made) =>
            /\ ~IsNone(last_call.grid)
            /\ Value(stacker).result.status = "constructed"
            /\ Value(stacker).result.stacked_flux =
                   ZerosGrid(Value(last_call.grid))
            /\ Value(stacker).result.stacked_weight =
                   ZerosGrid(Value(last_call.grid))

\* the case of C10 that the code decides otherwise: SplitMeanStacker
\* constructed with the grid unset raises TypeError
C10_SplitRaisesTypeError ==
    /\ last_call.call = "construct"
    /\ last_call.type = "SplitMeanStacker"
    /\ IsNone(last_call.grid)
    /\ last_call.raised = "TypeError"
    /\ IsNone(stacker)

(***************************************************************************)
(* The stackers that merge partial runs: MergeMeanStacker,                 *)
(* MergeMedianStacker and MergeBootstrapMeanStacker.                       *)
(***************************************************************************)
\* the set of the entries of an array
Range(array) == {array[i] : i \in 1..Len(array)}

\* the k-th smallest entry of an array without NaN
KthSmallest(array, k) ==
    CHOOSE v \in Range(array) :
        /\ Cardinality({i \in 1..Len(array) : RLess(array[i], v)}) < k
        /\ Cardinality({i \in 1..Len(array) : RLeq(array[i], v)}) >= k

\* np.nanmedian along axis 0 of one column: NaN when every entry is NaN
NanMedian(col) ==
    LET kept == DropNaN(col)
        n == Len(kept)
    IN IF n = 0 THEN NaN
       ELSE IF n % 2 = 1 THEN KthSmallest(kept, (n + 1) \div 2)
       ELSE RDiv(RAdd(KthSmallest(kept, n \div 2),
                      KthSmallest(kept, n \div 2 + 1)),
                 Rat(2, 1))

\* MedianStacker.__parse_config: the exception it raises, or None
MedianStackerParseRaises(config) ==
    IF IsNone(config.weighted) THEN "StackerError" ELSE None

\* MergeMedianStacker(config): MergeStacker.__init__ runs
\* MedianStacker.__init__ and Stacker.__init__ first, then loads the stacks
NewMergeMedianStacker(config, grid, count) ==
    IF StackerInitRaises(grid) # None
    THEN Outcome(StackerInitRaises(grid), Unset, grid, count)
    ELSE IF MedianStackerParseRaises(config) # None
    THEN Outcome(MedianStackerParseRaises(config), Unset, grid, count)
    ELSE LET loaded == load_stacks(config.stack_list, 1, grid, count, <<>>)
         IN IF loaded.raised # None
            THEN Outcome(loaded.raised, Unset, loaded.grid, loaded.assigned)
            ELSE Outcome(None,
                         Holding([type |-> "MergeMedianStacker",
                                  weighted |-> Value(config.weighted),
                                  stacks |-> loaded.stacker,
                                  result |-> NewStacker(Value(grid))]),
                         loaded.grid, loaded.assigned)

\* the median of the partial fluxes of bin b
MergeMedianFlux(stacks, b) ==
    NanMedian([k \in 1..Len(stacks) |-> stacks[k][1][b]])

\* mutant: the partial stacks are combined whatever the argument is
MergeMedianStacker_stack_unguarded(self, list) ==
    [self EXCEPT !.result =
        [self.result EXCEPT
            !.stacked_flux = [b \in Bins(self.result.stacked_flux) |->
                                 MergeMedianFlux(self.stacks, b)],
            !.stacked_weight = [b \in Bins(self.result.stacked_weight) |->
                                   MergeStackedWeight(self.stacks, b)],
            !.status = IF IsNone(list) THEN "stacked" ELSE "StackerError"]]

\* MergeMedianStacker.stack
MergeMedianStacker_stack(self, list) ==
    IF ~IsNone(list) THEN [self EXCEPT !.result.status = "StackerError"]
    ELSE IF self.weighted THEN [self EXCEPT !.result.status = "StackerError"]
    ELSE IF Len(self.stacks) = 0
    THEN [self EXCEPT !.result.status = "ValueError"]
    ELSE [self EXCEPT !.result =
            [self.result EXCEPT
                !.stacked_flux = [b \in Bins(self.result.stacked_flux) |->
                                     MergeMedianFlux(self.stacks, b)],
                !.stacked_weight = [b \in Bins(self.result.stacked_weight) |->
                                       MergeStackedWeight(self.stacks, b)],
                !.status = "stacked"]]

\* BootstrapStacker.__parse_config: the exception it raises, or None
BootstrapStackerParseRaises(config) ==
    IF config.num_bootstrap < 0 THEN "StackerError" ELSE None

\* MergeBootstrapMeanStacker(config): the main stacker and every bootstrap
\* stacker is a MergeMeanStacker of the same list of files; the option
\* 'hdu name' set for the bootstrap stackers is read by no loader
NewMergeBootstrapMeanStacker(config, grid, count) ==
    IF StackerInitRaises(grid) # None
    THEN Outcome(StackerInitRaises(grid), Unset, grid, count)
    ELSE IF BootstrapStackerParseRaises(config) # None
    THEN Outcome(BootstrapStackerParseRaises(config), Unset, grid, count)
    ELSE LET main == NewMergeMeanStacker(config, grid, count)
         IN IF main.raised # None
            THEN Outcome(main.raised, Unset, main.grid, main.assigned)
            ELSE Outcome(None,
                         Holding([type |-> "MergeBootstrapMeanStacker",
                                  result |-> NewStacker(Value(grid)),
                                  main_stacker |-> Value(main.stacker),
                                  bootstrap_stackers |->
                                      [k \in 1..config.num_bootstrap |->
                                          Value(main.stacker)]]),
                         main.grid, main.assigned)

\* MergeBootstrapMeanStacker.stack
MergeBootstrapMeanStacker_stack(self, list) ==
    IF ~IsNone(list) THEN [self EXCEPT !.result.status = "StackerError"]
    ELSE LET main == MergeMeanStacker_stack(self.main_stacker.result, Unset,
                                            self.main_stacker.stacks)
             replicas == [k \in 1..Len(self.bootstrap_stackers) |->
                          MergeMeanStacker_stack(
                              self.bootstrap_stackers[k].result, Unset,
                              self.bootstrap_stackers[k].stacks)]
             errors == ComputeErrors(main, replicas)
         IN IF main.status # "stacked"
            THEN [self EXCEPT !.main_stacker.result = main,
                              !.result.status = main.status]
            ELSE [self EXCEPT
                    !.main_stacker.result = errors,
                    !.bootstrap_stackers =
                        [k \in 1..Len(replicas) |->
                            [self.bootstrap_stackers[k] EXCEPT
                                !.result = replicas[k]]],
                    !.result.status =
                        IF errors.status = "errors set" THEN "stacked"
                        ELSE errors.status]

\* stacker_type(config) for the merging stackers
ConstructMerge(config, grid, count) ==
    IF config.type = "MergeMeanStacker"
    THEN NewMergeMeanStacker(config, grid, count)
    ELSE IF config.type = "MergeMedianStacker"
    THEN NewMergeMedianStacker(config, grid, count)
    ELSE NewMergeBootstrapMeanStacker(config, grid, count)

\* stacker.stack(spectra) for the merging stackers
Merge_stack(self, list) ==
    IF self.type = "MergeMeanStacker"
    THEN [self EXCEPT !.result =
              MergeMeanStacker_stack(self.result, list, self.stacks)]
    ELSE IF self.type = "MergeMedianStacker"
    THEN MergeMedianStacker_stack(self, list)
    ELSE MergeBootstrapMeanStacker_stack(self, list)

(***************************************************************************)
(* SpecMerge: partial stacks loaded and merged by a caller of the package. *)
(***************************************************************************)
\* the longest list of bootstrap stackers of a merging stacker
MaxMergeBootstrap == 1

MergeTypes == {"MergeMeanStacker", "MergeMedianStacker",
               "MergeBootstrapMeanStacker"}

\* the loaders of partial stacks, by the module that defines them
Loaders == {"merge_stacker", "merge_stacker_utils"}

\* the table extension StandardWriter gives the stack it writes
WrittenExtension == "STACK"

\* the lists of files of the option 'stack list' on a grid: the lists of
\* StackLists, a list whose second file is on the grid within the tolerance
\* of np.allclose, and lists of files as StandardWriter writes them, on one
\* grid and on two
MergeStackLists(grid) ==
    LET good == StackFile("STACKED_SPECTRUM", grid)
        written == StackFile(WrittenExtension, grid)
        near == [b \in 1..Len(grid) |-> RAdd(grid[b], Rat(1, 200))]
        far == [b \in 1..Len(grid) |-> RAdd(grid[b], One)]
    IN StackLists(grid)
       \cup {<<good, StackFile("STACKED_SPECTRUM", near)>>,
             <<written, written>>,
             <<written, StackFile(WrittenExtension, far)>>,
             <<written, StackFile(WrittenExtension, Tail(grid))>>}

AllStackLists == UNION {MergeStackLists(grid) : grid \in CallerGrids}

\* the sections [stacker] of the merging stackers
MergeConfigs ==
    LET all == {[type |-> type, stack_list |-> stack_list,
                 weighted |-> weighted, num_bootstrap |-> num_bootstrap] :
                   type \in MergeTypes, stack_list \in AllStackLists,
                   weighted \in {Holding(FALSE), Holding(TRUE)},
                   num_bootstrap \in 0..MaxMergeBootstrap}
    IN {config \in all :
          /\ config.type # "MergeMedianStacker"
                 => config.weighted = Holding(FALSE)
          /\ config.type # "MergeBootstrapMeanStacker"
                 => config.num_bootstrap = 0}

\* the record of a call: the arguments, the grid and the stacker it found,
\* the exception it raised and the list it returned
MergeCall(call, type, stack_list, list, grid, before, raised, returned) ==
    [call |-> call, type |-> type, stack_list |-> stack_list,
     spectra |-> list, grid |-> grid, before |-> before, raised |-> raised,
     returned |-> returned]

InitMerge ==
    /\ common_wavelength_grid = Unset
    /\ assigned = 0
    /\ stacker = Unset
    /\ last_call = MergeCall("none", "none", <<>>, Unset, Unset, Unset, None,
                             <<>>)
    /\ iface = None /\ normalizer = None /\ pool = None
    /\ spectra = None /\ sigma_i2 = None
    /\ cut = None /\ partA = None /\ partB = None
    /\ whole = None /\ merged = None
    /\ rng = None /\ boots = None

\* Spectrum.set_common_wavelength_grid(grid), once
SetGridOnce(grid) ==
    /\ IsNone(common_wavelength_grid)
    /\ common_wavelength_grid' = Holding(grid)
    /\ assigned' = assigned + 1
    /\ UNCHANGED <<spectra, sigma_i2, stackVars, bootVars, iface, normalizer,
                   pool, stacker, last_call>>

\* load_stacks(stack_list) called on its own
LoadStacks(loader, stack_list) ==
    /\ LET loaded == IF loader = "merge_stacker"
                     THEN load_stacks(stack_list, 1, common_wavelength_grid,
                                      assigned, <<>>)
                     ELSE utils_load_stacks(stack_list, 1,
                                            common_wavelength_grid, assigned,
                                            <<>>)
       IN /\ common_wavelength_grid' = loaded.grid
          /\ assigned' = loaded.assigned
          /\ last_call' = MergeCall("load_stacks", loader, stack_list, Unset,
                                    common_wavelength_grid, stacker,
                                    loaded.raised,
                                    IF loaded.raised = None
                                    THEN loaded.stacker ELSE <<>>)
    /\ UNCHANGED <<spectra, sigma_i2, stackVars, bootVars, iface, normalizer,
                   pool, stacker>>

\* stacker = stacker_type(config)
ConstructMergeStacker(config) ==
    /\ LET made == ConstructMerge(config, common_wavelength_grid, assigned)
       IN /\ common_wavelength_grid' = made.grid
          /\ assigned' = made.assigned
          /\ stacker' = IF made.raised # None THEN stacker ELSE made.stacker
          /\ last_call' = MergeCall("construct", config.type,
                                    config.stack_list, Unset,
                                    common_wavelength_grid, stacker,
                                    made.raised,
                                    IF made.raised = None
                                    THEN IF config.type =
                                            "MergeBootstrapMeanStacker"
                                         THEN Value(made.stacker)
                                                  .main_stacker.stacks
                                         ELSE Value(made.stacker).stacks
                                    ELSE <<>>)
    /\ UNCHANGED <<spectra, sigma_i2, stackVars, bootVars, iface, normalizer,
                   pool>>

\* stacker.stack(spectra)
MergeStack ==
    /\ ~IsNone(stacker)
    /\ \E list \in CallerSpectra(Len(Value(stacker).result.stacked_flux)) :
          LET after == Merge_stack(Value(stacker), list)
          IN /\ stacker' = Holding(after)
             /\ last_call' =
                   MergeCall("stack", after.type, <<>>, list,
                             common_wavelength_grid, stacker,
                             IF after.result.status = "stacked" THEN None
                             ELSE after.result.status,
                             <<>>)
    /\ UNCHANGED <<common_wavelength_grid, spectra, sigma_i2, stackVars,
                   bootVars, iface, normalizer, pool, assigned>>

NextMerge ==
    \/ \E grid \in CallerGrids : SetGridOnce(grid)
    \/ \E loader \in Loaders, stack_list \in AllStackLists :
           LoadStacks(loader, stack_list)
    \/ \E config \in MergeConfigs : ConstructMergeStacker(config)
    \/ MergeStack

SpecMerge == InitMerge /\ [][NextMerge]_vars

\* stacked_flux, stacked_weight and stacked_error of a merging stacker and
\* of the stackers it holds
StackedArrays(self) ==
    LET own(result) == <<result.stacked_flux, result.stacked_weight,
                         result.stacked_error>>
    IN IF self.type = "MergeBootstrapMeanStacker"
       THEN <<own(self.result), own(self.main_stacker.result),
              [k \in 1..Len(self.bootstrap_stackers) |->
                  own(self.bootstrap_stackers[k].result)]>>
       ELSE <<own(self.result)>>

\* C11: stack called on a merging stacker with spectra other than None
\* raises StackerError and leaves stacked_flux, stacked_weight and
\* stacked_error as they were before the call.
C11_MergeWantsNoSpectra ==
    (last_call.call = "stack" /\ ~IsNone(last_call.spectra))
    => /\ last_call.raised = "StackerError"
       /\ StackedArrays(Value(stacker)) =
              StackedArrays(Value(last_call.before))

\* a merging stacker of each kind that had merged its stacks was then
\* called with a list of spectra
C11_Witness ==
    /\ last_call.call = "stack"
    /\ ~IsNone(last_call.spectra)
    /\ Len(Value(last_call.spectra)) > 0
    /\ last_call.type = "MergeBootstrapMeanStacker"
    /\ Value(last_call.before).result.status = "stacked"
    /\ Value(stacker).main_stacker.result.stacked_flux[1] = Rat(2, 1)

\* a file whose table of wavelengths has the size of the grid and is close
\* to it entry by entry
OnGrid(file, grid) ==
    /\ Len(file.wavelength) = Len(grid)
    /\ AllClose(grid, file.wavelength)

\* the grid the files of a call are held against: the common grid, or the
\* wavelengths of the first file when no grid was set
ReferenceGrid(call) ==
    IF IsNone(call.grid) THEN call.stack_list[1].wavelength
    ELSE Value(call.grid)

\* C12: loading the partial stacks succeeds, keeping one pair of flux and
\* weight per file in the order of the list, exactly when every file is on
\* the reference grid, and raises StackerError when a file is not.
C12_LoadChecksGrid ==
    (last_call.call = "load_stacks"
     \/ (last_call.call = "construct" /\ ~IsNone(last_call.grid)
         /\ last_call.type = "MergeMeanStacker"))
    => LET list == last_call.stack_list
           all_on_grid == \A k \in 1..Len(list) :
                              OnGrid(list[k], ReferenceGrid(last_call))
       IN /\ all_on_grid
              => /\ last_call.raised = None
                 /\ last_call.returned =
                        [k \in 1..Len(list) |-> <<list[k].flux,
                                                  list[k].weight>>]
          /\ ~all_on_grid => last_call.raised = "StackerError"

\* a MergeMeanStacker built on two files StandardWriter wrote, the second
\* on another grid, stops with KeyError at the first file
C12_WrittenFilesKeyError ==
    /\ last_call.call = "construct"
    /\ last_call.type = "MergeMeanStacker"
    /\ ~IsNone(last_call.grid)
    /\ Len(last_call.stack_list) = 2
    /\ \A k \in 1..2 : last_call.stack_list[k].hdu = WrittenExtension
    /\ OnGrid(last_call.stack_list[1], Value(last_call.grid))
    /\ ~OnGrid(last_call.stack_list[2], Value(last_call.grid))
    /\ last_call.raised = "KeyError"

\* on files that carry the extension the loader of MergeStacker reads, the
\* check of the grid decides the outcome
C12_GridCheckOnReadableFiles ==
    (last_call.call = "construct" /\ ~IsNone(last_call.grid)
     /\ last_call.type = "MergeMeanStacker"
     /\ \A k \in 1..Len(last_call.stack_list) :
            last_call.stack_list[k].hdu = "STACKED_SPECTRUM")
    => LET list == last_call.stack_list
           all_on_grid == \A k \in 1..Len(list) :
                              OnGrid(list[k], Value(last_call.grid))
       IN IF all_on_grid
          THEN /\ last_call.raised = None
               /\ last_call.returned =
                      [k \in 1..Len(list) |-> <<list[k].flux,
                                                list[k].weight>>]
          ELSE last_call.raised = "StackerError"

(***************************************************************************)
(* The stackers that split the spectra in groups: SplitStacker and the     *)
(* functions of split_stacker.py and split_stacker_utils.py.               *)
(***************************************************************************)
\* find_interval_index(value, intervals): the index, from 0, of the interval
\* [intervals[n], intervals[n+1]) that holds the value, -1 when none does
find_interval_index(value, intervals) ==
    IF RLess(value, intervals[1]) THEN -1
    ELSE LET hits == {i \in 1..(Len(intervals) - 1) :
                         /\ RLeq(intervals[i], value)
                         /\ RLess(value, intervals[i + 1])}
         IN IF hits = {} THEN -1
            ELSE (CHOOSE i \in hits : \A j \in hits : i <= j) - 1

\* assign_group_one_cut(row, variable, intervals, offset)
assign_group_one_cut(row, variable, intervals, offset) ==
    LET index == find_interval_index(row[variable], intervals)
    IN IF index = -1 THEN -1 ELSE index + offset

\* np.prod(num_intervals[:index])
RECURSIVE ProdBefore(_, _)
ProdBefore(num_intervals, index) ==
    IF index = 0 THEN 1
    ELSE num_intervals[index] * ProdBefore(num_intervals, index - 1)

\* np.sum of variable_index * np.prod(num_intervals[:index])
RECURSIVE GroupNumber(_, _, _)
GroupNumber(variable_indexs, num_intervals, k) ==
    IF k = 0 THEN 0
    ELSE variable_indexs[k] * ProdBefore(num_intervals, k - 1)
         + GroupNumber(variable_indexs, num_intervals, k - 1)

\* assign_group_multiple_cuts of split_stacker_utils.py
utils_assign_group_multiple_cuts(row, variables, intervals, num_intervals) ==
    LET variable_indexs == [k \in 1..Len(variables) |->
                               find_interval_index(row[variables[k]],
                                                   intervals[k])]
    IN IF \E k \in 1..Len(variables) : variable_indexs[k] = -1 THEN -1
       ELSE GroupNumber(variable_indexs, num_intervals, Len(variables))

\* SplitStacker.__parse_config: np.array(cuts, dtype=int) drops the
\* fractional part of every cut
ParseSplits(split_cuts) ==
    [k \in 1..Len(split_cuts) |->
        [c \in 1..Len(split_cuts[k]) |-> Rat(Trunc(split_cuts[k][c]), 1)]]

\* the offset of the groups of variable k: the sizes of the arrays of cuts
\* of the variables before it
RECURSIVE GroupOffset(_, _)
GroupOffset(splits, k) ==
    IF k = 1 THEN 0
    ELSE GroupOffset(splits, k - 1) + Len(splits[k - 1])

\* SplitStacker.assing_groups, split type OR: one column per variable, the
\* column of variable k in groups[k]; the rows of groups_info take the name
\* of their column and their number from the index of the interval
AssignGroupsOr(split_on, splits, catalogue) ==
    [split_catalogue |->
         [r \in 1..Len(catalogue) |->
             [row |-> catalogue[r],
              groups |-> [k \in 1..Len(split_on) |->
                             assign_group_one_cut(catalogue[r], split_on[k],
                                                  splits[k],
                                                  GroupOffset(splits, k))]]],
     groups_info |->
         [k \in 1..Len(split_on) |->
             [i \in 1..(Len(splits[k]) - 1) |->
                 [VARIABLE |-> split_on[k], MIN_VALUE |-> splits[k][i],
                  MAX_VALUE |-> splits[k][i + 1], COLNAME |-> i - 1,
                  GROUP_NUM |-> (i - 1) + GroupOffset(splits, k)]]],
     num_groups |-> GroupOffset(splits, Len(split_on))
                    + Len(splits[Len(split_on)])]

\* SplitStacker(config): Stacker.__init__, the options, the catalogue, the
\* groups; with split type AND assing_groups reads the name split_on, which
\* is bound in __parse_config only
NewSplitStacker(config, catalogue, grid) ==
    IF StackerInitRaises(grid) # None
    THEN [raised |-> StackerInitRaises(grid), stacker |-> Unset]
    ELSE IF Len(config.split_cuts) # Len(config.split_on)
    THEN [raised |-> "StackerError", stacker |-> Unset]
    ELSE IF config.split_type = "AND"
    THEN [raised |-> "NameError", stacker |-> Unset]
    ELSE LET splits == ParseSplits(config.split_cuts)
             made == AssignGroupsOr(config.split_on, splits, catalogue)
         IN [raised |-> None,
             stacker |-> Holding([type |-> "SplitStacker",
                                  split_type |-> config.split_type,
                                  split_on |-> config.split_on,
                                  splits |-> splits,
                                  split_catalogue |-> made.split_catalogue,
                                  groups_info |-> made.groups_info,
                                  num_groups |-> made.num_groups,
                                  stackers |-> <<>>,
                                  result |-> NewStacker(Value(grid))])]

\* SplitStacker.stack: the exception it raises and, for each stacker of
\* self.stackers, the list it was called with (Unset when it was not
\* called); zip(self.num_groups, self.stackers) is given an integer
SplitStacker_stack(self, list) ==
    IF Len(self.stackers) # self.num_groups
    THEN [raised |-> "StackerError",
          received |-> [g \in 1..Len(self.stackers) |-> Unset]]
    ELSE [raised |-> "TypeError",
          received |-> [g \in 1..Len(self.stackers) |-> Unset]]

(***************************************************************************)
(* SpecSplit: SplitStacker built on a catalogue, given its stackers by a   *)
(* child class and asked to stack; the functions of split_stacker_utils.py *)
(* applied to a catalogue.                                                 *)
(***************************************************************************)
\* the longest list a child class stores in self.stackers
MaxSubStackers == 3

\* the rows of the extension CATALOG
Row(specid, z, bi_civ) == [specid |-> specid, Z |-> z, BI_CIV |-> bi_civ]

Catalogues ==
    {<<Row(1, Rat(5, 4), Rat(1, 2)), Row(2, Rat(7, 4), Rat(3, 2)),
       Row(3, Rat(5, 2), Rat(5, 1))>>,
     <<Row(1, Rat(3, 2), Rat(3, 2)), Row(2, Rat(3, 2), Rat(3, 2)),
       Row(3, Rat(1, 2), Zero)>>}

\* the sets of cuts of the option 'split cuts', as written
CutSets == {<<One, Rat(3, 2), Rat(2, 1)>>,
            <<One, Rat(2, 1), Rat(3, 1)>>,
            <<One, Rat(2, 1)>>}

\* the sets of cuts of the variable BI_CIV
CutSetsBI == {<<Zero, One, Rat(2, 1)>>}

\* the sections [stacker] of a splitting stacker: one variable, two
\* variables, and one variable with two sets of cuts
SplitConfigs ==
    {[split_type |-> split_type, split_on |-> <<"Z">>,
      split_cuts |-> <<cuts>>] :
        split_type \in {"OR", "AND"}, cuts \in CutSets}
    \cup {[split_type |-> split_type, split_on |-> <<"Z", "BI_CIV">>,
           split_cuts |-> <<cuts_z, cuts_bi>>] :
             split_type \in {"OR", "AND"},
             cuts_z \in {cuts \in CutSets : Len(cuts) = 3},
             cuts_bi \in CutSetsBI}
    \cup {[split_type |-> "OR", split_on |-> <<"Z">>,
           split_cuts |-> <<<<One, Rat(2, 1)>>, <<One, Rat(2, 1)>>>>]}

\* the lists of spectra handed to stack, by their specid
SplitSpectra == {<<>>, <<[specid |-> 1]>>,
                 <<[specid |-> 1], [specid |-> 2], [specid |-> 3]>>}

\* the record of a call
SplitCall(call, config, catalogue, list, raised, received, groups) ==
    [call |-> call, config |-> config, catalogue |-> catalogue,
     spectra |-> list, raised |-> raised, received |-> received,
     groups |-> groups]

NoConfig == [split_type |-> "none", split_on |-> <<>>, split_cuts |-> <<>>]

InitSplit ==
    /\ common_wavelength_grid = Unset
    /\ assigned = 0
    /\ stacker = Unset
    /\ last_call = SplitCall("none", NoConfig, <<>>, <<>>, None, <<>>, <<>>)
    /\ iface = None /\ normalizer = None /\ pool = None
    /\ spectra = None /\ sigma_i2 = None
    /\ cut = None /\ partA = None /\ partB = None
    /\ whole = None /\ merged = None
    /\ rng = None /\ boots = None

\* stacker = SplitStacker(config)
ConstructSplitStacker(config, catalogue) ==
    /\ LET made == NewSplitStacker(config, catalogue, common_wavelength_grid)
       IN /\ stacker' = IF made.raised # None THEN stacker ELSE made.stacker
          /\ last_call' = SplitCall("SplitStacker", config, catalogue, <<>>,
                                    made.raised, <<>>, <<>>)
    /\ UNCHANGED <<common_wavelength_grid, spectra, sigma_i2, stackVars,
                   bootVars, iface, normalizer, pool, assigned>>

\* stacker = SplitMeanStacker(config): SplitStacker.__init__ is handed the
\* keywords groups_info and split_catalogue, which it does not take
ConstructSplitMeanStacker(config, catalogue) ==
    /\ last_call' = SplitCall("SplitMeanStacker", config, catalogue, <<>>,
                              "TypeError", <<>>, <<>>)
    /\ UNCHANGED <<common_wavelength_grid, spectra, sigma_i2, stackVars,
                   bootVars, iface, normalizer, pool, assigned, stacker>>

\* a child class stores its stackers: self.stackers = [MeanStacker(config)
\* for _ in range(count)]
DefineStackers(count) ==
    /\ ~IsNone(stacker)
    /\ stacker' = Holding([Value(stacker) EXCEPT !.stackers =
                     [g \in 1..count |->
                         NewStacker(Value(common_wavelength_grid))]])
    /\ last_call' = SplitCall("stackers", NoConfig, <<>>, <<>>, None, <<>>,
                              <<>>)
    /\ UNCHANGED <<common_wavelength_grid, spectra, sigma_i2, stackVars,
                   bootVars, iface, normalizer, pool, assigned>>

\* stacker.stack(spectra)
SplitStack(list) ==
    /\ ~IsNone(stacker)
    /\ LET done == SplitStacker_stack(Value(stacker), list)
       IN last_call' = SplitCall("stack", NoConfig, <<>>, list, done.raised,
                                 done.received, <<>>)
    /\ UNCHANGED <<common_wavelength_grid, spectra, sigma_i2, stackVars,
                   bootVars, iface, normalizer, pool, assigned, stacker>>

\* catalogue.apply(assign_group_multiple_cuts, axis=1, args=(variables,
\* intervals, num_intervals)) with the function of split_stacker_utils.py
ApplyAssignGroups(config, catalogue) ==
    /\ config.split_type = "AND"
    /\ LET num_intervals == [k \in 1..Len(config.split_cuts) |->
                                Len(config.split_cuts[k]) - 1]
       IN last_call' =
              SplitCall("assign_group_multiple_cuts", config, catalogue,
                        <<>>, None, <<>>,
                        [r \in 1..Len(catalogue) |->
                            utils_assign_group_multiple_cuts(
                                catalogue[r], config.split_on,
                                config.split_cuts, num_intervals)])
    /\ UNCHANGED <<common_wavelength_grid, spectra, sigma_i2, stackVars,
                   bootVars, iface, normalizer, pool, assigned, stacker>>

NextSplit ==
    \/ \E grid \in CallerGrids : SetGridOnce(grid)
    \/ \E config \in SplitConfigs, catalogue \in Catalogues :
           ConstructSplitStacker(config, catalogue)
    \/ \E config \in SplitConfigs, catalogue \in Catalogues :
           ConstructSplitMeanStacker(config, catalogue)
    \/ \E count \in 0..MaxSubStackers : DefineStackers(count)
    \/ \E list \in SplitSpectra : SplitStack(list)
    \/ \E config \in SplitConfigs, catalogue \in Catalogues :
           ApplyAssignGroups(config, catalogue)

SpecSplit == InitSplit /\ [][NextSplit]_vars

\* C13: stack raises StackerError exactly when the number of stackers
\* differs from num_groups, and then calls no stacker; when the numbers
\* agree it calls the stacker of every group and returns.
C13_StackCountsStackers ==
    last_call.call = "stack"
    => LET self == Value(stacker)
           differ == Len(self.stackers) # self.num_groups
       IN /\ (last_call.raised = "StackerError") <=> differ
          /\ differ => \A g \in 1..Len(self.stackers) :
                           IsNone(last_call.received[g])
          /\ ~differ => /\ last_call.raised = None
                        /\ \A g \in 1..Len(self.stackers) :
                               ~IsNone(last_call.received[g])

\* with as many stackers as groups, stack ends in TypeError and no stacker
\* was called
C13_MatchingCountsTypeError ==
    /\ last_call.call = "stack"
    /\ Len(Value(stacker).stackers) = Value(stacker).num_groups
    /\ Len(last_call.spectra) > 0
    /\ last_call.raised = "TypeError"
    /\ \A g \in 1..Len(Value(stacker).stackers) :
           IsNone(last_call.received[g])

\* with another number of stackers, stack raises StackerError
C13_DifferingCountsStackerError ==
    (last_call.call = "stack"
     /\ Len(Value(stacker).stackers) # Value(stacker).num_groups)
    => /\ last_call.raised = "StackerError"
       /\ \A g \in 1..Len(Value(stacker).stackers) :
              IsNone(last_call.received[g])

\* the spectra of a list whose row of the catalogue carries group number g
\* in one of its columns of groups
SpectraOfGroup(self, list, g) ==
    LET InGroup(spectrum) ==
            \E r \in 1..Len(self.split_catalogue) :
                /\ self.split_catalogue[r].row.specid = spectrum.specid
                /\ \E k \in 1..Len(self.split_catalogue[r].groups) :
                       self.split_catalogue[r].groups[k] = g
    IN SelectSeq(list, InGroup)

\* C14: when stack hands the spectra to the stackers, the stacker of group
\* g receives exactly the spectra the catalogue assigns to g, and a
\* spectrum assigned -1 goes to no stacker.
C14_GroupReceivesItsSpectra ==
    (last_call.call = "stack"
     /\ Len(Value(stacker).stackers) = Value(stacker).num_groups)
    => \A g \in 1..Len(Value(stacker).stackers) :
           last_call.received[g] =
               Holding(SpectraOfGroup(Value(stacker), last_call.spectra,
                                      g - 1))

\* value lies in the i-th interval [cuts[i], cuts[i+1])
Inside(value, cuts, i) ==
    RLeq(cuts[i], value) /\ RLess(value, cuts[i + 1])

\* the product of the numbers of intervals of the variables
RECURSIVE NumCells(_, _)
NumCells(split_cuts, k) ==
    IF k = 0 THEN 1
    ELSE (Len(split_cuts[k]) - 1) * NumCells(split_cuts, k - 1)

\* the groups of a call partition the rows of its catalogue
Partitions(call) ==
    LET on == call.config.split_on
        cuts == call.config.split_cuts
        rows == 1..Len(call.catalogue)
        Cell(r, k, i) == Inside(call.catalogue[r][on[k]], cuts[k], i)
        Outside(r) == \E k \in 1..Len(on) :
                          \A i \in 1..(Len(cuts[k]) - 1) : ~Cell(r, k, i)
        SameCells(r, s) == \A k \in 1..Len(on) :
                               \A i \in 1..(Len(cuts[k]) - 1) :
                                   Cell(r, k, i) <=> Cell(s, k, i)
        cells == NumCells(cuts, Len(on))
    IN /\ call.raised = None
       /\ Len(call.groups) = Len(call.catalogue)
       /\ \A r \in rows :
              /\ (call.groups[r] = -1) <=> Outside(r)
              /\ call.groups[r] \in -1..(cells - 1)
       /\ \A r, s \in rows :
              (call.groups[r] # -1 /\ call.groups[s] # -1)
              => ((call.groups[r] = call.groups[s]) <=> SameCells(r, s))
       /\ Cardinality({r \in rows : call.groups[r] \in 0..(cells - 1)})
          + Cardinality({r \in rows : call.groups[r] = -1})
          = Len(call.catalogue)

\* C15: under the policy AND every row of the catalogue gets one value: -1
\* when a variable is outside its intervals, else a group number below the
\* product of the numbers of intervals, equal for two rows exactly when
\* they share the interval of every variable; the groups and the rows with
\* -1 add up to the rows.
C15_AndPartition ==
    (\/ last_call.call = "assign_group_multiple_cuts"
     \/ /\ last_call.call = "SplitStacker"
        /\ last_call.config.split_type = "AND"
        /\ Len(last_call.config.split_cuts) = Len(last_call.config.split_on)
        /\ ~IsNone(common_wavelength_grid))
    => Partitions(last_call)

\* SplitStacker built with split type AND on a grid ends in NameError
C15_AndRaisesNameError ==
    /\ last_call.call = "SplitStacker"
    /\ last_call.config.split_type = "AND"
    /\ Len(last_call.config.split_on) = 2
    /\ ~IsNone(common_wavelength_grid)
    /\ last_call.raised = "NameError"

\* the function of split_stacker_utils.py partitions the rows
C15_UtilsPartition ==
    last_call.call = "assign_group_multiple_cuts" => Partitions(last_call)

(***************************************************************************)
(* The normalizers on several regions: MultipleRegionsNormalization, its   *)
(* variants for partial runs and for merging them, and the functions of    *)
(* multiple_regions_normalization_utils.py.                                *)
(***************************************************************************)
\* the default of the argument sigma_i2 of compute_norm_factors: 0.0025
DefaultSigmaI2 == Rat(1, 400)

\* weight of compute_norm_factors: ivar, divided by 1 + sigma_i2 * ivar
\* unless sigma_i2 is close to 0
PixelWeight(ivar, sigma2) ==
    IF IsClose(sigma2, Zero) THEN ivar
    ELSE RDiv(ivar, RAdd(One, RMul(sigma2, ivar)))

\* pos of compute_norm_factors of multiple_regions_normalization_utils.py
utils_RegionPixels(ivar, wavelength, interval) ==
    {j \in 1..Len(wavelength) :
        /\ RLeq(interval[1], wavelength[j])
        /\ RLeq(wavelength[j], interval[2])
        /\ ivar[j] # Zero}

\* compute_norm_factors of multiple_regions_normalization_utils.py: norm
\* factor, norm S/N, number of pixels and total weight of each interval
utils_compute_norm_factors(flux, ivar, wavelength, num_intervals, intervals, sigma2) ==
    [index \in 1..num_intervals |->
        LET pos == utils_RegionPixels(ivar, wavelength, intervals[index])
            num_pixels == Rat(Cardinality(pos), 1)
            weight == [j \in 1..Len(ivar) |-> PixelWeight(ivar[j], sigma2)]
            total_weight == RSum(weight, pos)
            norm_factor ==
                RDiv(RSum([j \in 1..Len(flux) |-> RMul(flux[j], weight[j])],
                          pos),
                     total_weight)
            noise2 ==
                RDiv(RSum([j \in 1..Len(ivar) |-> RDiv(weight[j], ivar[j])],
                          pos),
                     total_weight)
        IN IF pos = {} \/ ~RPos(norm_factor)
           THEN [norm_factor |-> NaN,
                 norm_sn |-> SignalToNoise(NaN, NaN),
                 num_pixels |-> num_pixels,
                 total_weight |-> NaN]
           ELSE [norm_factor |-> norm_factor,
                 norm_sn |-> SignalToNoise(norm_factor, noise2),
                 num_pixels |-> num_pixels,
                 total_weight |-> total_weight]]

\* np.nanargmax(row[cols].values): the first interval with the greatest
\* total weight that is not NaN, counted from 1; 0 when np.nanargmax raises
\* ValueError because every total weight is NaN
NanArgMaxWeight(row) ==
    LET valid == {k \in 1..Len(row) : ~IsNaN(row[k].total_weight)}
    IN IF valid = {} THEN 0
       ELSE CHOOSE index \in valid :
               /\ \A k \in valid :
                      RLeq(row[k].total_weight, row[index].total_weight)
               /\ \A k \in valid :
                      k < index => RLess(row[k].total_weight,
                                         row[index].total_weight)

\* select_final_normalisation_factor of
\* multiple_regions_normalization_utils.py
utils_select_final_normalisation_factor(row, correction_factors) ==
    LET selected_interval == NanArgMaxWeight(row)
    IN IF selected_interval = 0
       THEN [norm_factor |-> NaN, norm_sn |-> SignalToNoise(NaN, NaN),
             chosen_interval |-> -1]
       ELSE [norm_factor |-> RMul(row[selected_interval].norm_factor,
                                  correction_factors[selected_interval]),
             norm_sn |-> row[selected_interval].norm_sn,
             chosen_interval |-> selected_interval - 1]

\* the first interval for which compute_correction_factors raises, counted
\* from 1; 0 when it raises for none
FirstUncorrected(self, rows) ==
    LET failing == {index \in 1..self.num_intervals :
                       /\ index # self.main_interval + 1
                       /\ CommonRows(rows, index, self.main_interval + 1) = {}}
    IN IF failing = {} THEN 0
       ELSE CHOOSE index \in failing : \A k \in failing : index <= k

\* self.correction_factors when compute_correction_factors ends: the loop
\* assigns interval by interval and stops at the first one it raises for
CorrectionFactorsAfter(self, rows) ==
    LET stop == FirstUncorrected(self, rows)
    IN IF stop = 0 THEN compute_correction_factors(self, rows)
       ELSE [index \in 1..self.num_intervals |->
                IF index >= stop THEN self.correction_factors[index]
                ELSE IF index = self.main_interval + 1 THEN One
                ELSE LET aux == CommonRows(rows, index, self.main_interval + 1)
                     IN RDiv(MeanNormFactor(rows, self.main_interval + 1, aux),
                             MeanNormFactor(rows, index, aux))]

\* self.norm_factors before the final columns exist: the columns of the
\* intervals and the column specid
MeasuredTable(self, list) ==
    LET rows == NormFactorRows(self, list)
    IN [i \in 1..Len(list) |->
           [specid |-> list[i].specid, intervals |-> rows[i]]]

\* self.norm_factors with the columns norm factor, norm S/N and chosen
\* interval that select_final_normalisation_factor adds
SelectedTable(self, list, correction_factors) ==
    LET rows == NormFactorRows(self, list)
    IN [i \in 1..Len(list) |->
           [specid |-> list[i].specid,
            intervals |-> rows[i],
            final |-> select_final_normalisation_factor(
                          rows[i], correction_factors)]]

NormalizerTypes == {"MultipleRegionsNormalization",
                    "PartialMultipleRegionsNormalization",
                    "MergeMultipleRegionsNormalization"}

\* normalizer_type(config): the attributes of MultipleRegionsNormalization
\* in self, and the flag of the variant for partial runs
NewVariantNormalizer(type, config) ==
    [type |-> type,
     compute_correction_factors_flag |-> config.compute_correction_factors_flag,
     self |-> NewNormalizer(config)]

\* what a call of compute_norm_factors or save_norm_factors leaves: the
\* exception, the attributes, whether the final factors were selected, and
\* the tables written to the log directory
Computed(raised, self, selected, saved) ==
    [raised |-> raised, self |-> self, selected |-> selected,
     saved |-> saved]

\* the tables save_norm_factors writes
SavedTables(self) ==
    Holding([norm_factors |-> Value(self.norm_factors),
             correction_factors |-> self.correction_factors])

\* MultipleRegionsNormalization.compute_norm_factors with one process, the
\* method compute_correction_factors being the one of the variant
Standard_compute_norm_factors(self, list, corrects) ==
    IF IsNone(list) THEN Computed("TypeError", self, FALSE, Unset)
    ELSE LET rows == NormFactorRows(self, Value(list))
             measured == [self EXCEPT !.norm_factors =
                             Holding(MeasuredTable(self, Value(list)))]
         IN IF corrects /\ FirstUncorrected(self, rows) # 0
            THEN Computed("NormalizerError",
                          [measured EXCEPT !.correction_factors =
                              CorrectionFactorsAfter(self, rows)],
                          FALSE, Unset)
            ELSE LET correction_factors ==
                         IF corrects
                         THEN compute_correction_factors(self, rows)
                         ELSE self.correction_factors
                 IN Computed(None,
                             [self EXCEPT
                                 !.norm_factors =
                                     Holding(SelectedTable(self, Value(list),
                                                 correction_factors)),
                                 !.correction_factors = correction_factors],
                             TRUE, Unset)

\* PartialMultipleRegionsNormalization.compute_norm_factors: the factors,
\* the tables saved, and sys.exit(0)
Partial_compute_norm_factors(normalizer_, list) ==
    LET done == Standard_compute_norm_factors(
                    normalizer_.self, list,
                    normalizer_.compute_correction_factors_flag)
    IN IF done.raised # None THEN done
       ELSE Computed("SystemExit", done.self, TRUE, SavedTables(done.self))

\* MergeMultipleRegionsNormalization.compute_norm_factors: spectra must be
\* None, and then self.load_norm_factors is an attribute no class defines
Merge_compute_norm_factors(normalizer_, list) ==
    IF ~IsNone(list)
    THEN Computed("NormalizerError", normalizer_.self, FALSE, Unset)
    ELSE Computed("AttributeError", normalizer_.self, FALSE, Unset)

\* normalizer.compute_norm_factors(spectra)
Variant_compute_norm_factors(normalizer_, list) ==
    IF normalizer_.type = "MultipleRegionsNormalization"
    THEN Standard_compute_norm_factors(normalizer_.self, list, TRUE)
    ELSE IF normalizer_.type = "PartialMultipleRegionsNormalization"
    THEN Partial_compute_norm_factors(normalizer_, list)
    ELSE Merge_compute_norm_factors(normalizer_, list)

\* normalizer.save_norm_factors(): the variant for merging pairs the
\* folders with self.norm_factors_list, which is None; the others write
\* self.norm_factors, which is None before compute_norm_factors
Variant_save_norm_factors(normalizer_) ==
    IF normalizer_.type = "MergeMultipleRegionsNormalization"
    THEN Computed("TypeError", normalizer_.self, FALSE, Unset)
    ELSE IF IsNone(normalizer_.self.norm_factors)
    THEN Computed("AttributeError", normalizer_.self, FALSE, Unset)
    ELSE Computed(None, normalizer_.self, FALSE,
                  SavedTables(normalizer_.self))

\* the column "norm factor" exists in self.norm_factors
HasFinal(table) == Len(table) > 0 /\ "final" \in DOMAIN table[1]

\* normalizer.normalize_spectrum(spectrum): the exception it raises, or None
Variant_normalize_raises(self, spectrum) ==
    IF IsNone(self.norm_factors) THEN "TypeError"
    ELSE IF ~HasFinal(Value(self.norm_factors)) THEN "KeyError"
    ELSE NormalizeRaises(Value(self.norm_factors), spectrum)

(***************************************************************************)
(* SpecNorm: a normalizer of each variant is built, computes and saves its *)
(* factors and normalizes spectra; the functions of the utilities module   *)
(* are applied to a spectrum.                                              *)
(***************************************************************************)
\* the wavelengths of the spectra, and the grid they were rebinned to
NormWavelength == <<Rat(1000, 1), Rat(1001, 1), Rat(1002, 1), Rat(1003, 1)>>
NormGrid == <<Rat(1000, 1), Rat(1002, 1)>>

\* the option 'intervals': one region, and two regions; the pixel at 1001
\* is at the end of the first region
NormIntervals ==
    {<<<<Rat(1000, 1), Rat(1001, 1)>>>>,
     <<<<Rat(1000, 1), Rat(1001, 1)>>, <<Rat(1002, 1), Rat(1003, 1)>>>>}

\* the sections [normalizer], with 'main interval' one of the intervals
NormConfigs ==
    LET all == {[intervals |-> intervals, main_interval |-> main_interval,
                 num_processors |-> 1,
                 compute_correction_factors_flag |-> flag] :
                   intervals \in NormIntervals, main_interval \in 0..1,
                   flag \in BOOLEAN}
    IN {config \in all : config.main_interval < Len(config.intervals)}

\* a spectrum read and rebinned: its pixels, and on the grid the flux of
\* the first pixel of each region
ReadSpectrum(specid, flux, ivar) ==
    set_flux_ivar_common_grid(
        NewSpectrum(specid, [j \in 1..4 |-> Rat(flux[j], 1)],
                    [j \in 1..4 |-> Rat(ivar[j], 1)], NormWavelength, Zero),
        <<Rat(flux[1], 1), Rat(flux[3], 1)>>,
        <<Rat(ivar[1], 1), Rat(ivar[3], 1)>>)

\* the spectra: both regions measured; the second region masked; the first
\* region masked; a negative first region; every pixel masked; fewer but
\* better pixels in the second region; a first region of mean zero
NormSpectra ==
    <<ReadSpectrum(1, <<2, 2, 4, 4>>, <<1, 1, 1, 1>>),
      ReadSpectrum(2, <<1, 3, 0, 0>>, <<1, 1, 0, 0>>),
      ReadSpectrum(3, <<0, 0, 3, 0>>, <<0, 0, 4, 0>>),
      ReadSpectrum(4, <<-2, -2, 1, 1>>, <<1, 1, 1, 1>>),
      ReadSpectrum(5, <<1, 1, 1, 1>>, <<0, 0, 0, 0>>),
      ReadSpectrum(6, <<2, 2, 6, 0>>, <<1, 1, 4, 0>>),
      ReadSpectrum(7, <<1, -1, 2, 2>>, <<1, 1, 1, 1>>)>>

\* the lists of spectra handed to compute_norm_factors, by their positions
\* in NormSpectra
NormLists ==
    {[k \in 1..Len(ids) |-> NormSpectra[ids[k]]] :
        ids \in {<<1>>, <<2>>, <<4>>, <<5>>, <<7>>,
                 <<1, 2>>, <<6, 1>>, <<1, 3, 4>>}}

\* no correction factor of the list is a non-zero mean divided by a zero
\* mean: np.inf is not a value of the model
FiniteCorrections(self, list) ==
    LET rows == NormFactorRows(self, list)
    IN \A index \in 1..self.num_intervals :
           LET aux == CommonRows(rows, index, self.main_interval + 1)
           IN (index # self.main_interval + 1 /\ aux # {})
              => MeanNormFactor(rows, index, aux) # Zero

\* the record of a call: the arguments, the exception, whether the final
\* factors were selected, the tables saved, the rows and final factors
\* computed, and the spectrum before and after normalize_spectrum
NormCall(call, list, intervals, done, rows, correction_factors, finals, input, output) ==
    [call |-> call, list |-> list, intervals |-> intervals,
     raised |-> done.raised, selected |-> done.selected,
     saved |-> done.saved, rows |-> rows,
     correction_factors |-> correction_factors, finals |-> finals,
     input |-> input, output |-> output]

NothingDone == Computed(None, Unset, FALSE, Unset)

InitNorm ==
    /\ common_wavelength_grid = Holding(NormGrid)
    /\ assigned = 1
    /\ normalizer = Unset
    /\ last_call = NormCall("none", Unset, <<>>, NothingDone, <<>>, <<>>,
                            <<>>, Unset, Unset)
    /\ iface = None /\ stacker = None /\ pool = None
    /\ spectra = None /\ sigma_i2 = None
    /\ cut = None /\ partA = None /\ partB = None
    /\ whole = None /\ merged = None
    /\ rng = None /\ boots = None

\* normalizer = normalizer_type(config), once in a run
ConstructNormalizer(type, config) ==
    /\ IsNone(normalizer)
    /\ NormalizerParseRaises(config) = None
    /\ normalizer' = Holding(NewVariantNormalizer(type, config))
    /\ last_call' = NormCall("construct", Unset, config.intervals,
                             NothingDone, <<>>, <<>>, <<>>, Unset, Unset)
    /\ UNCHANGED <<common_wavelength_grid, spectra, sigma_i2, stackVars,
                   bootVars, iface, pool, stacker, assigned>>

\* normalizer.compute_norm_factors(spectra)
ComputeNormFactors(list) ==
    /\ ~IsNone(normalizer)
    /\ \E made \in {Value(normalizer)} :
       \E done \in {Variant_compute_norm_factors(made, list)} :
          /\ normalizer' = Holding([made EXCEPT !.self = done.self])
          /\ last_call' =
                 NormCall("compute_norm_factors", list, made.self.intervals,
                          done,
                          IF /\ ~IsNone(list)
                             /\ made.type # "MergeMultipleRegionsNormalization"
                          THEN NormFactorRows(made.self, Value(list))
                          ELSE <<>>,
                          done.self.correction_factors,
                          IF done.selected
                          THEN [i \in 1..Len(Value(list)) |->
                                   Value(done.self.norm_factors)[i].final]
                          ELSE <<>>,
                          Unset, Unset)
    /\ UNCHANGED <<common_wavelength_grid, spectra, sigma_i2, stackVars,
                   bootVars, iface, pool, stacker, assigned>>

\* normalizer.save_norm_factors()
SaveNormFactors ==
    /\ ~IsNone(normalizer)
    /\ \E done \in {Variant_save_norm_factors(Value(normalizer))} :
           last_call' = NormCall("save_norm_factors", Unset,
                                 Value(normalizer).self.intervals, done,
                                 <<>>, done.self.correction_factors, <<>>,
                                 Unset, Unset)
    /\ UNCHANGED <<common_wavelength_grid, spectra, sigma_i2, stackVars,
                   bootVars, iface, pool, stacker, assigned, normalizer>>

\* spectrum = normalizer.normalize_spectrum(spectrum)
NormalizeOne(spectrum) ==
    /\ ~IsNone(normalizer)
    /\ \E self \in {Value(normalizer).self} :
       \E raised \in {Variant_normalize_raises(self, spectrum)} :
          last_call' =
              NormCall("normalize_spectrum", Unset, self.intervals,
                       Computed(raised, self, FALSE, Unset), <<>>,
                       self.correction_factors, <<>>, Holding(spectrum),
                       IF raised # None THEN Unset
                       ELSE Holding(normalize_spectrum(
                                        Value(self.norm_factors), spectrum)))
    /\ UNCHANGED <<common_wavelength_grid, spectra, sigma_i2, stackVars,
                   bootVars, iface, pool, stacker, assigned, normalizer>>

\* compute_norm_factors and select_final_normalisation_factor of
\* multiple_regions_normalization_utils.py applied to one spectrum, with
\* correction factors of 1, before the run builds its normalizer
ApplyUtils(intervals, spectrum) ==
    /\ IsNone(normalizer)
    /\ \E correction_factors \in {[k \in 1..Len(intervals) |-> One]} :
       \E rows \in {utils_compute_norm_factors(
                        spectrum.flux, spectrum.ivar, spectrum.wavelength,
                        Len(intervals), intervals, DefaultSigmaI2)} :
          last_call' =
              NormCall("utils", Holding(<<spectrum>>), intervals,
                       Computed(None, Unset, TRUE, Unset), <<rows>>,
                       correction_factors,
                       <<utils_select_final_normalisation_factor(
                             rows, correction_factors)>>,
                       Unset, Unset)
    /\ UNCHANGED <<common_wavelength_grid, spectra, sigma_i2, stackVars,
                   bootVars, iface, pool, stacker, assigned, normalizer>>

NextNorm ==
    \/ \E type \in NormalizerTypes, config \in NormConfigs :
           /\ config.compute_correction_factors_flag
                  => type = "PartialMultipleRegionsNormalization"
           /\ ConstructNormalizer(type, config)
    \/ ComputeNormFactors(Unset)
    \/ \E list \in NormLists :
           /\ ~IsNone(normalizer)
           /\ FiniteCorrections(Value(normalizer).self, list)
           /\ ComputeNormFactors(Holding(list))
    \/ SaveNormFactors
    \/ \E k \in 1..Len(NormSpectra) : NormalizeOne(NormSpectra[k])
    \/ \E intervals \in NormIntervals, k \in 1..Len(NormSpectra) :
           ApplyUtils(intervals, NormSpectra[k])

SpecNorm == InitNorm /\ [][NextNorm]_vars

\* C16: whenever a normalizer on several regions selects or saves final
\* factors, the correction factor of the main interval is 1, and a spectrum
\* whose chosen interval is the main one has the norm factor of the main
\* interval as its final factor.
C16_MainCorrectionIsOne ==
    (/\ last_call.call \in {"compute_norm_factors", "save_norm_factors"}
     /\ (last_call.selected \/ ~IsNone(last_call.saved)))
    => LET main == Value(normalizer).self.main_interval + 1
       IN /\ last_call.correction_factors[main] = One
          /\ ~IsNone(last_call.saved)
                 => Value(last_call.saved).correction_factors[main] = One
          /\ \A i \in 1..Len(last_call.finals) :
                 last_call.finals[i].chosen_interval = main - 1
                 => last_call.finals[i].norm_factor =
                        last_call.rows[i][main].norm_factor

\* the normalizer of a partial run, with its default flag, saves a
\* correction factor 0 for the main interval and a final factor 0 for a
\* spectrum whose main interval measures 2
C16_PartialSavesZero ==
    /\ last_call.call = "compute_norm_factors"
    /\ Value(normalizer).type = "PartialMultipleRegionsNormalization"
    /\ ~Value(normalizer).compute_correction_factors_flag
    /\ last_call.raised = "SystemExit"
    /\ ~IsNone(last_call.saved)
    /\ Value(last_call.saved).correction_factors[
           Value(normalizer).self.main_interval + 1] = Zero
    /\ Value(last_call.saved).norm_factors[1].final.chosen_interval =
           Value(normalizer).self.main_interval
    /\ Value(last_call.saved).norm_factors[1].final.norm_factor = Zero
    /\ last_call.rows[1][Value(normalizer).self.main_interval + 1].norm_factor
           = Rat(2, 1)

\* MultipleRegionsNormalization selects with a correction factor 1 for the
\* main interval
C16_StandardSelectsWithOne ==
    (/\ last_call.call = "compute_norm_factors"
     /\ last_call.selected
     /\ Value(normalizer).type = "MultipleRegionsNormalization")
    => last_call.correction_factors[Value(normalizer).self.main_interval + 1]
           = One

TotalWeight(spectrum, interval) ==
    RSum([j \in 1..Len(spectrum.ivar) |->
             PixelWeight(spectrum.ivar[j], DefaultSigmaI2)],
         {j \in 1..Len(spectrum.wavelength) :
             /\ RLeq(interval[1], spectrum.wavelength[j])
             /\ RLeq(spectrum.wavelength[j], interval[2])
             /\ spectrum.ivar[j] # Zero})

\* the final factor of spectrum i of a call is the one of the interval of
\* greatest total weight among those with a norm factor, or NaN and -1
ByTotalWeight(call, i) ==
    LET row == call.rows[i]
        final == call.finals[i]
        valid == {r \in 1..Len(row) : ~IsNaN(row[r].norm_factor)}
        weight(r) == TotalWeight(Value(call.list)[i], call.intervals[r])
        chosen == final.chosen_interval + 1
    IN IF valid = {}
       THEN IsNaN(final.norm_factor) /\ final.chosen_interval = -1
       ELSE /\ chosen \in valid
            /\ \A r \in valid : RLeq(weight(r), weight(chosen))
            /\ final.norm_factor = RMul(row[chosen].norm_factor,
                                        call.correction_factors[chosen])
            /\ final.norm_sn = row[chosen].norm_sn

\* C18: the final factor of a spectrum is the norm factor of the interval
\* with the greatest total weight among the intervals with valid data,
\* times its correction factor, with the S/N of that interval; without a
\* valid interval the final factor is NaN and the chosen interval -1.
C18_GreatestTotalWeight ==
    (last_call.call \in {"compute_norm_factors", "utils"}
     /\ last_call.selected)
    => \A i \in 1..Len(last_call.finals) : ByTotalWeight(last_call, i)

\* MultipleRegionsNormalization chooses the interval with more pixels over
\* the one with more weight
C18_ChosenByPixels ==
    /\ last_call.call = "compute_norm_factors"
    /\ last_call.selected
    /\ Len(last_call.intervals) = 2
    /\ Value(last_call.list)[1].specid = 6
    /\ last_call.finals[1].chosen_interval = 0
    /\ RLess(TotalWeight(Value(last_call.list)[1], last_call.intervals[1]),
             TotalWeight(Value(last_call.list)[1], last_call.intervals[2]))

\* MultipleRegionsNormalization chooses interval 0 for a spectrum without
\* a valid interval
C18_NoValidIntervalChosenZero ==
    /\ last_call.call = "compute_norm_factors"
    /\ last_call.selected
    /\ \A r \in 1..Len(last_call.intervals) :
           IsNaN(last_call.rows[1][r].norm_factor)
    /\ last_call.finals[1].chosen_interval = 0
    /\ IsNaN(last_call.finals[1].norm_factor)

\* the functions of multiple_regions_normalization_utils.py select by
\* total weight
C18_UtilsSelectByWeight ==
    last_call.call = "utils" => ByTotalWeight(last_call, 1)

\* C19: normalize_spectrum does not raise for any value of the final
\* factor of the spectrum: a positive factor divides flux_common_grid, a
\* zero, negative or NaN factor gives NaN at every pixel of the grid.
C19_NormalizeByFactor ==
    (/\ last_call.call = "normalize_spectrum"
     /\ ~IsNone(Value(normalizer).self.norm_factors)
     /\ HasFinal(Value(Value(normalizer).self.norm_factors))
     /\ \E i \in 1..Len(Value(Value(normalizer).self.norm_factors)) :
            Value(Value(normalizer).self.norm_factors)[i].specid
                = Value(last_call.input).specid)
    => LET table == Value(Value(normalizer).self.norm_factors)
           spectrum == Value(last_call.input)
           row == CHOOSE i \in 1..Len(table) :
                      /\ table[i].specid = spectrum.specid
                      /\ \A k \in 1..(i - 1) :
                             table[k].specid # spectrum.specid
           factor == table[row].final.norm_factor
           flux == Value(spectrum.flux_common_grid)
       IN /\ last_call.raised = None
          /\ Value(last_call.output).normalized_flux =
                 Holding([b \in 1..Len(Value(common_wavelength_grid)) |->
                             IF factor.d # 0 /\ factor.n > 0
                             THEN RDiv(flux[b], factor)
                             ELSE NaN])

\* a spectrum whose final factor is negative was normalized to NaN
C19_Witness ==
    /\ last_call.call = "normalize_spectrum"
    /\ last_call.raised = None
    /\ Len(Value(Value(normalizer).self.norm_factors)) = 1
    /\ Value(Value(normalizer).self.norm_factors)[1].specid
           = Value(last_call.input).specid
    /\ Value(Value(normalizer).self.norm_factors)[1].final.norm_factor
           = Rat(-2, 1)
    /\ Value(last_call.output).normalized_flux = Holding(<<NaN, NaN>>)

\* the pixels of a spectrum with ivar other than 0 from the start of an
\* interval to its end, the end left out
HalfOpenPixels(spectrum, interval) ==
    {j \in 1..Len(spectrum.wavelength) :
        /\ spectrum.ivar[j] # Zero
        /\ RLeq(interval[1], spectrum.wavelength[j])
        /\ RLess(spectrum.wavelength[j], interval[2])}

\* ... the end included
ClosedPixels(spectrum, interval) ==
    {j \in 1..Len(spectrum.wavelength) :
        /\ spectrum.ivar[j] # Zero
        /\ RLeq(interval[1], spectrum.wavelength[j])
        /\ RLeq(spectrum.wavelength[j], interval[2])}

\* the quantities of interval r of spectrum i of a call come from the
\* pixels pos and from no other: their number, the mean flux for the
\* function of the class, the weighted mean flux (or NaN) for the function
\* of the utilities, and NaN for all but the number when pos is empty
MeasuredOn(call, i, r, pos) ==
    LET spectrum == Value(call.list)[i]
        measured == call.rows[i][r]
        weight == [j \in 1..Len(spectrum.ivar) |->
                      PixelWeight(spectrum.ivar[j], DefaultSigmaI2)]
    IN /\ measured.num_pixels = Rat(Cardinality(pos), 1)
       /\ pos = {}
              => /\ IsNaN(measured.norm_factor)
                 /\ IsNaN(measured.norm_sn.signal)
                 /\ call.call = "utils" => IsNaN(measured.total_weight)
       /\ (pos # {} /\ call.call # "utils")
              => measured.norm_factor =
                     RDiv(RSum(spectrum.flux, pos),
                          Rat(Cardinality(pos), 1))
       /\ (pos # {} /\ call.call = "utils")
              => \/ IsNaN(measured.norm_factor)
                 \/ /\ measured.total_weight = RSum(weight, pos)
                    /\ measured.norm_factor =
                           RDiv(RSum([j \in 1..Len(spectrum.flux) |->
                                         RMul(spectrum.flux[j], weight[j])],
                                     pos),
                                RSum(weight, pos))

\* the calls that measure the intervals of spectra
Measures(call) ==
    /\ call.call \in {"compute_norm_factors", "utils"}
    /\ Len(call.rows) > 0

\* C20 as claimed: a pixel counts for an interval exactly when its ivar is
\* not 0 and start <= wavelength < end, so the pixel at the end does not
\* count, and an interval without such a pixel has NaN for its norm
\* factor, S/N and total weight.
C20_HalfOpenRegion ==
    Measures(last_call)
    => \A i \in 1..Len(last_call.rows) :
           \A r \in 1..Len(last_call.intervals) :
               MeasuredOn(last_call, i, r,
                          HalfOpenPixels(Value(last_call.list)[i],
                                         last_call.intervals[r]))

\* C20 as amended: a pixel counts for an interval exactly when its ivar is
\* not 0 and start <= wavelength <= end, so the pixel at the end counts,
\* and an interval without such a pixel has NaN for its norm factor and
\* S/N, and for its total weight where one is computed.
C20_ClosedRegion ==
    Measures(last_call)
    => \A i \in 1..Len(last_call.rows) :
           \A r \in 1..Len(last_call.intervals) :
               MeasuredOn(last_call, i, r,
                          ClosedPixels(Value(last_call.list)[i],
                                       last_call.intervals[r]))

\* the pixel at the end of the first interval was counted, and the second
\* interval of the spectrum, all masked, measured NaN
C20_Witness ==
    /\ last_call.call = "compute_norm_factors"
    /\ Len(last_call.intervals) = 2
    /\ Len(last_call.rows) > 0
    /\ Value(last_call.list)[1].specid = 2
    /\ Value(last_call.list)[1].wavelength[2] = last_call.intervals[1][2]
    /\ Value(last_call.list)[1].ivar[2] # Zero
    /\ last_call.rows[1][1].num_pixels = Rat(2, 1)
    /\ last_call.rows[1][1].norm_factor = Rat(2, 1)
    /\ last_call.rows[1][2].num_pixels = Zero
    /\ IsNaN(last_call.rows[1][2].norm_factor)

(***************************************************************************)
(* SpecRebin: a Rebin is built from a section [rebin] and called on        *)
(* spectra.                                                                *)
(***************************************************************************)
\* the sections [rebin]: limits that are and are not a whole number of
\* steps apart, a maximum below the minimum, one and no step between them
RebinConfigs ==
    {[min_wavelength |-> Rat(1000, 1), max_wavelength |-> Rat(max, 1),
      step_wavelength |-> Rat(step[1], step[2]), step_type |-> "lin"] :
        max \in {999, 1000, 1001, 1002, 1003, 1004},
        step \in {<<1, 1>>, <<2, 1>>, <<3, 2>>}}
    \cup
    {[min_wavelength |-> Rat(min, 1), max_wavelength |-> Rat(max, 1),
      step_wavelength |-> Rat(step[1], step[2]), step_type |-> "log"] :
        min \in {1, 10}, max \in {100, 10000},
        step \in {<<1, 1>>, <<2, 1>>, <<4, 3>>}}

\* the wavelengths of the spectra read, by step type: below the grid, on
\* its first point, between its points, on its last point and beyond it
RebinWavelengths(step_type) ==
    IF step_type = "lin"
    THEN {<<998, 1000, 1001, 1002>>, <<1000, 1002, 1004, 1006>>,
          <<999, 1003, 1004, 1005>>, <<1001, 1001, 1002, 1003>>}
    ELSE {<<1, 10, 100, 10000>>, <<10, 1000, 100, 1>>,
          <<100, 100, 1000, 10000>>}

\* a spectrum read: its observed wavelengths are (1 + redshift) times the
\* rest-frame ones; a masked pixel among its four
RebinSpectra(step_type) ==
    {NewSpectrum(1, <<Rat(2, 1), Rat(4, 1), Rat(6, 1), Rat(3, 1)>>,
                 <<One, Rat(2, 1), ivar3, One>>,
                 [j \in 1..4 |-> Rat((1 + redshift) * wavelength[j], 1)],
                 Rat(redshift, 1)) :
        wavelength \in RebinWavelengths(step_type), redshift \in {0, 1},
        ivar3 \in {Zero, One}}

\* a spectrum with one pixel on each point of the grid of self
OnGridSpectrum(self) ==
    NewSpectrum(2,
                [i \in 1..Len(self.common_wavelength_grid) |-> Rat(i + 1, 1)],
                [i \in 1..Len(self.common_wavelength_grid) |-> Rat(i, 1)],
                [i \in 1..Len(self.common_wavelength_grid) |->
                    IF self.step_type = "lin"
                    THEN self.common_wavelength_grid[i]
                    ELSE Pow10(self.common_wavelength_grid[i])],
                Zero)

\* the record of a call: the section, the exception, the array handed to
\* rebin, bins and valid_bins of rebin, and the spectrum before and after
RebinCall(call, config, raised, wavelength, bins, valid_bins, input, output) ==
    [call |-> call, config |-> config, raised |-> raised,
     wavelength |-> wavelength, bins |-> bins, valid_bins |-> valid_bins,
     input |-> input, output |-> output]

InitRebin ==
    /\ common_wavelength_grid = Unset
    /\ assigned = 0
    /\ iface = [rebin |-> Unset]
    /\ spectra = <<>>
    /\ last_call = RebinCall("none", Unset, None, <<>>, <<>>, <<>>,
                             Unset, Unset)
    /\ normalizer = None /\ stacker = None /\ pool = None
    /\ sigma_i2 = None
    /\ cut = None /\ partA = None /\ partB = None
    /\ whole = None /\ merged = None
    /\ rng = None /\ boots = None

\* self.rebin = Rebin(config["rebin"]), once in a run
ConstructRebin(config) ==
    /\ IsNone(iface.rebin)
    /\ last_call.call = "none"
    /\ \E raised \in {RebinParseRaises(config)} :
          /\ last_call' = RebinCall("Rebin", Holding(config), raised, <<>>,
                                    <<>>, <<>>, Unset, Unset)
          /\ IF raised # None
             THEN UNCHANGED <<iface, common_wavelength_grid, assigned>>
             ELSE /\ iface' = [iface EXCEPT !.rebin = Holding(NewRebin(config))]
                  /\ common_wavelength_grid' = Holding(SpectrumGrid(config))
                  /\ assigned' = assigned + 1
    /\ UNCHANGED <<spectra, sigma_i2, stackVars, bootVars, normalizer, pool,
                   stacker>>

\* spectrum = self.rebin(spectrum): find_bins reads the first two points of
\* the grid
CallRebin(spectrum) ==
    /\ ~IsNone(iface.rebin)
    /\ Len(Value(iface.rebin).common_wavelength_grid) >= 2
    /\ \E self \in {Value(iface.rebin)} :
       \E wavelength \in {RestWavelength(self, spectrum)} :
       \E output \in {Rebin_call(self, spectrum)} :
          /\ \A j \in 1..Len(wavelength) : ~IsNaN(wavelength[j])
          /\ spectra' = <<output>>
          /\ last_call' =
                 RebinCall("rebin", last_call.config, None, wavelength,
                           [j \in 1..Len(wavelength) |->
                               find_bins(wavelength[j],
                                         self.common_wavelength_grid)],
                           [j \in 1..Len(wavelength) |->
                               ValidBin(find_bins(wavelength[j],
                                            self.common_wavelength_grid),
                                        self.common_wavelength_grid)],
                           Holding(spectrum), Holding(output))
    /\ UNCHANGED <<common_wavelength_grid, sigma_i2, stackVars, bootVars,
                   iface, normalizer, pool, stacker, assigned>>

NextRebin ==
    \/ \E config \in RebinConfigs : ConstructRebin(config)
    \/ \E spectrum \in RebinSpectra("lin") :
           /\ ~IsNone(iface.rebin)
           /\ Value(iface.rebin).step_type = "lin"
           /\ CallRebin(spectrum)
    \/ \E spectrum \in RebinSpectra("log") :
           /\ ~IsNone(iface.rebin)
           /\ Value(iface.rebin).step_type = "log"
           /\ CallRebin(spectrum)
    \/ /\ ~IsNone(iface.rebin)
       /\ CallRebin(OnGridSpectrum(Value(iface.rebin)))

SpecRebin == InitRebin /\ [][NextRebin]_vars

\* the greatest whole number that is not above x
Floor(x) == x.n \div x.d

\* (value - grid[0]) / step, with step the distance of the first two points
GridPosition(value, grid_array) ==
    RDiv(RSub(value, grid_array[1]), RSub(grid_array[2], grid_array[1]))

\* i is a whole number nearest to x
Nearest(x, i) == RLeq(RAbs(RSub(x, Rat(i, 1))), Rat(1, 2))

\* rebin accumulated sample j of the call into bin i, counted from 0
Accumulated(call, j, i) == call.valid_bins[j] /\ call.bins[j] = i

\* the grid of the Rebin the call was made on
GridOfCall(call) == RebinGrid(Value(call.config))

\* the bins a sample of the model can fall in, and some beyond either end
BinRange == -8..8

\* C21: rebin accumulates a sample into bin i if and only if i is
\* round((value - grid[0]) / step) and 0 <= i < size; a sample whose index
\* is 0 is kept, a sample whose index is outside [0, size) is discarded.
\* (Either neighbour counts as the rounded value of a tie.)
C21_KeptIffRounded ==
    last_call.call = "rebin" =>
        LET grid == GridOfCall(last_call)
        IN \A j \in 1..Len(last_call.wavelength), i \in BinRange :
            LET x == GridPosition(last_call.wavelength[j], grid)
                kept == Nearest(x, i) /\ 0 <= i /\ i < Len(grid)
            IN /\ Accumulated(last_call, j, i) => kept
               /\ (kept /\ \A k \in BinRange \ {i} : ~Nearest(x, k))
                      => Accumulated(last_call, j, i)

\* a sample on the first point of the grid, which rebin leaves out
C21_FirstBinDiscarded ==
    /\ last_call.call = "rebin"
    /\ \E j \in 1..Len(last_call.wavelength) :
          /\ GridPosition(last_call.wavelength[j],
                          GridOfCall(last_call)) = Zero
          /\ Value(last_call.input).ivar[j] # Zero
          /\ ~last_call.valid_bins[j]

\* what rebin does: a sample is accumulated into bin i if and only if i is
\* the whole part of (value - grid[0]) / step + 1/2 and 0 < i < size
C21_KeptFromSecondBin ==
    last_call.call = "rebin" =>
        LET grid == GridOfCall(last_call)
        IN \A j \in 1..Len(last_call.wavelength), i \in BinRange :
            Accumulated(last_call, j, i) <=>
                /\ i = Floor(RAdd(GridPosition(last_call.wavelength[j], grid),
                                  Rat(1, 2)))
                /\ 0 < i /\ i < Len(grid)

\* the samples of the call mapped to bin b, counted from 0
MappedTo(call, b) ==
    {j \in 1..Len(call.wavelength) :
        Floor(RAdd(GridPosition(call.wavelength[j], GridOfCall(call)),
                   Rat(1, 2))) = b}

\* the flux and ivar of bin b as the weighted mean of the samples in S
BinIsMeanOf(call, b, S) ==
    LET input == Value(call.input)
        output == Value(call.output)
        sum == RSum(input.ivar, S)
        weighted == RSum([j \in 1..Len(input.flux) |->
                             RMul(input.ivar[j], input.flux[j])], S)
    IN /\ Value(output.ivar_common_grid)[b + 1] = sum
       /\ Value(output.flux_common_grid)[b + 1] =
              IF sum = Zero THEN Zero ELSE RDiv(weighted, sum)

\* C22: for every output bin rebin returns as ivar the sum of the ivar of
\* the samples mapped to the bin, and as flux the sum of ivar*flux over
\* them divided by that ivar, exactly 0 where the summed ivar is 0; both
\* arrays have the length of the common grid.
C22_RebinSums ==
    last_call.call = "rebin" =>
        LET output == Value(last_call.output)
            size == Len(Value(common_wavelength_grid))
        IN /\ Len(Value(output.flux_common_grid)) = size
           /\ Len(Value(output.ivar_common_grid)) = size
           /\ \A b \in 0..(size - 1) :
                  BinIsMeanOf(last_call, b, MappedTo(last_call, b))

\* a call whose first bin has samples with ivar and comes out empty
C22_FirstBinEmpty ==
    /\ last_call.call = "rebin"
    /\ RSum(Value(last_call.input).ivar, MappedTo(last_call, 0)) # Zero
    /\ Value(Value(last_call.output).ivar_common_grid)[1] = Zero
    /\ Value(Value(last_call.output).flux_common_grid)[1] = Zero

\* what rebin does: the sums hold from the second bin on, the first bin is
\* empty
C22_SumsFromSecondBin ==
    last_call.call = "rebin" =>
        LET size == Len(Value(common_wavelength_grid))
        IN /\ BinIsMeanOf(last_call, 0, {})
           /\ \A b \in 1..(size - 1) :
                  BinIsMeanOf(last_call, b, MappedTo(last_call, b))

\* the call rebinned a spectrum with one pixel on each point of the grid
OnGridCall(call) ==
    /\ call.call = "rebin"
    /\ Value(call.input) = OnGridSpectrum(Value(iface.rebin))

\* C23: rebinning a spectrum whose samples are the points of the common
\* grid returns flux_common_grid and ivar_common_grid equal to its flux and
\* ivar at every point, the first and the last included.
C23_OnGridUnchanged ==
    OnGridCall(last_call) =>
        /\ Value(last_call.output).flux_common_grid =
               Holding(Value(last_call.input).flux)
        /\ Value(last_call.output).ivar_common_grid =
               Holding(Value(last_call.input).ivar)

\* such a spectrum rebinned on a grid in log10(wavelength), its first
\* point lost
C23_FirstPointLost ==
    /\ OnGridCall(last_call)
    /\ Value(iface.rebin).step_type = "log"
    /\ Value(Value(last_call.output).ivar_common_grid)[1] = Zero
    /\ Value(last_call.input).ivar[1] # Zero

\* what rebin does: every point but the first keeps its flux and ivar
C23_AllButFirstUnchanged ==
    OnGridCall(last_call) =>
        \A b \in 2..Len(Value(last_call.input).flux) :
            /\ Value(Value(last_call.output).flux_common_grid)[b] =
                   Value(last_call.input).flux[b]
            /\ Value(Value(last_call.output).ivar_common_grid)[b] =
                   Value(last_call.input).ivar[b]

\* min and max of the section in the units of its step
ConfiguredMin(config) ==
    IF config.step_type = "lin" THEN config.min_wavelength
    ELSE Log10(config.min_wavelength)

ConfiguredMax(config) ==
    IF config.step_type = "lin" THEN config.max_wavelength
    ELSE Log10(config.max_wavelength)

\* round((max - min) / step)
ConfiguredSize(config) ==
    Round(RDiv(RSub(ConfiguredMax(config), ConfiguredMin(config)),
               config.step_wavelength))

\* min + size * step gives back the configured max
Reconstructs(config) ==
    LET sum == RAdd(ConfiguredMin(config),
                    RMul(Rat(ConfiguredSize(config), 1),
                         config.step_wavelength))
    IN IsClose(IF config.step_type = "lin" THEN sum ELSE Pow10(sum),
               config.max_wavelength)

\* the construction fails, with RebinError, exactly when min > max or the
\* max is not reconstructed
RaisesAsConfigured(call) ==
    LET config == Value(call.config)
    IN /\ call.raised \in {None, "RebinError"}
       /\ call.raised = None <=>
              /\ RLeq(config.min_wavelength, config.max_wavelength)
              /\ Reconstructs(config)

\* C24: Rebin construction succeeds only when min <= max and min + size*step
\* reconstructs the configured max, size being round((max - min)/step) in
\* wavelength or in log10(wavelength), and fails with RebinError otherwise;
\* the grid installed has exactly size points, starts at min and has
\* consecutive points separated by the configured step.
C24_Construction ==
    last_call.call = "Rebin" =>
        LET config == Value(last_call.config)
            size == ConfiguredSize(config)
        IN /\ RaisesAsConfigured(last_call)
           /\ last_call.raised = None =>
                  LET grid == Value(iface.rebin).common_wavelength_grid
                  IN /\ Len(grid) = size
                     /\ Len(Value(common_wavelength_grid)) = size
                     /\ size >= 1 => grid[1] = ConfiguredMin(config)
                     /\ \A i \in 1..(size - 1) :
                            RSub(grid[i + 1], grid[i]) = config.step_wavelength

\* a grid of four points from 1000 to 1004 built for a step of 1
C24_StepNotKept ==
    /\ last_call.call = "Rebin"
    /\ last_call.raised = None
    /\ Value(last_call.config).step_wavelength = One
    /\ Len(Value(common_wavelength_grid)) = 4
    /\ Value(common_wavelength_grid)[1] = Rat(1000, 1)
    /\ Value(common_wavelength_grid)[2] = Rat(3004, 3)
    /\ Value(common_wavelength_grid)[4] = Rat(1004, 1)

\* what the constructor does: it fails as stated, and the grid has size
\* points evenly spaced from min to max, both included
C24_GridSpansMinToMax ==
    last_call.call = "Rebin" =>
        LET config == Value(last_call.config)
            size == ConfiguredSize(config)
        IN /\ RaisesAsConfigured(last_call)
           /\ last_call.raised = None =>
                  LET grid == Value(iface.rebin).common_wavelength_grid
                  IN /\ Len(grid) = size
                     /\ size >= 1 => grid[1] = ConfiguredMin(config)
                     /\ size >= 2 => grid[size] = ConfiguredMax(config)
                     /\ \A i \in 1..(size - 1) :
                            RSub(grid[i + 1], grid[i]) =
                                RDiv(RSub(ConfiguredMax(config),
                                          ConfiguredMin(config)),
                                     Rat(size - 1, 1))

(***************************************************************************)
(* SpecSpectrum: the arrays on the common grid of one spectrum are set,    *)
(* again and again, with arrays of the length of the grid and of others.   *)
(***************************************************************************)
\* the common grids: none yet, two points, three points
SpectrumGrids ==
    {Unset, Holding(<<Rat(1000, 1), Rat(1001, 1)>>),
     Holding(<<Rat(1000, 1), Rat(1001, 1), Rat(1002, 1)>>)}

\* the arrays handed to the setters, of one to four entries
SetterArrays ==
    {[i \in 1..Len(values) |-> Rat(values[i], 1)] :
        values \in {<<1>>, <<1, 2>>, <<2, 1>>, <<1, 2, 3>>, <<3, 2, 1>>,
                    <<1, 2, 3, 4>>}}

\* the record of a call of a setter: its arguments, the exception, and the
\* spectrum before the call
SetterCall(call, arguments, raised, before) ==
    [call |-> call, arguments |-> arguments, raised |-> raised,
     before |-> before]

InitSpectrum ==
    /\ common_wavelength_grid \in SpectrumGrids
    /\ assigned = IF IsNone(common_wavelength_grid) THEN 0 ELSE 1
    /\ spectra = <<NewSpectrum(1, <<One, One>>, <<One, One>>,
                               <<Rat(1000, 1), Rat(1001, 1)>>, Zero)>>
    /\ last_call = SetterCall("none", <<>>, None, Unset)
    /\ iface = None /\ normalizer = None /\ stacker = None /\ pool = None
    /\ sigma_i2 = None
    /\ cut = None /\ partA = None /\ partB = None
    /\ whole = None /\ merged = None
    /\ rng = None /\ boots = None

\* spectrum.set_flux_ivar_common_grid(flux_common_grid, ivar_common_grid);
\* without a grid, None has no attribute size
SetFluxIvarCommonGrid(flux_common_grid, ivar_common_grid) ==
    /\ \E raised \in {IF IsNone(common_wavelength_grid) THEN "AttributeError"
                      ELSE SetFluxIvarRaises(common_wavelength_grid,
                                             flux_common_grid,
                                             ivar_common_grid)} :
          /\ spectra' = IF raised # None THEN spectra
                        ELSE <<set_flux_ivar_common_grid(
                                   spectra[1], flux_common_grid,
                                   ivar_common_grid)>>
          /\ last_call' = SetterCall("set_flux_ivar_common_grid",
                                     <<flux_common_grid, ivar_common_grid>>,
                                     raised, Holding(spectra[1]))
    /\ UNCHANGED <<common_wavelength_grid, sigma_i2, stackVars, bootVars,
                   iface, normalizer, pool, stacker, assigned>>

\* spectrum.set_normalized_flux(normalized_flux)
SetNormalizedFlux(normalized_flux) ==
    /\ \E raised \in {IF IsNone(common_wavelength_grid) THEN "AttributeError"
                      ELSE SetNormalizedRaises(common_wavelength_grid,
                                               normalized_flux)} :
          /\ spectra' = IF raised # None THEN spectra
                        ELSE <<set_normalized_flux(spectra[1],
                                                   normalized_flux)>>
          /\ last_call' = SetterCall("set_normalized_flux",
                                     <<normalized_flux>>, raised,
                                     Holding(spectra[1]))
    /\ UNCHANGED <<common_wavelength_grid, sigma_i2, stackVars, bootVars,
                   iface, normalizer, pool, stacker, assigned>>

NextSpectrum ==
    \/ \E flux_common_grid \in SetterArrays, ivar_common_grid \in SetterArrays :
           SetFluxIvarCommonGrid(flux_common_grid, ivar_common_grid)
    \/ \E normalized_flux \in SetterArrays : SetNormalizedFlux(normalized_flux)

SpecSpectrum == InitSpectrum /\ [][NextSpectrum]_vars

\* the attribute is None or has the length of the common grid
OnCommonGrid(attr) ==
    IsNone(attr) \/ Len(Value(attr)) = Len(Value(common_wavelength_grid))

\* C25: after any sequence of calls of set_flux_ivar_common_grid and
\* set_normalized_flux, with a common grid, each of flux_common_grid,
\* ivar_common_grid and normalized_flux is unset or has the length of the
\* grid; a call with an array of another length raises SpectrumError and
\* leaves the three attributes as they were.
C25_OnGridLengths ==
    ~IsNone(common_wavelength_grid) =>
        /\ OnCommonGrid(spectra[1].flux_common_grid)
        /\ OnCommonGrid(spectra[1].ivar_common_grid)
        /\ OnCommonGrid(spectra[1].normalized_flux)
        /\ last_call.call # "none" =>
              /\ last_call.raised = "SpectrumError" <=>
                     \E k \in 1..Len(last_call.arguments) :
                         Len(last_call.arguments[k]) #
                             Len(Value(common_wavelength_grid))
              /\ last_call.raised \in {None, "SpectrumError"}
              /\ last_call.raised # None =>
                     spectra[1] = Value(last_call.before)

\* a spectrum with its three arrays set, and then a call whose flux has
\* the length of the grid and whose ivar has not
C25_Witness ==
    /\ ~IsNone(common_wavelength_grid)
    /\ ~IsNone(spectra[1].flux_common_grid)
    /\ ~IsNone(spectra[1].normalized_flux)
    /\ last_call.call = "set_flux_ivar_common_grid"
    /\ last_call.raised = "SpectrumError"
    /\ Len(last_call.arguments[1]) = Len(Value(common_wavelength_grid))
    /\ Len(last_call.arguments[2]) # Len(Value(common_wavelength_grid))

(***************************************************************************)
(* MedianStacker, and SpecMedian: a MedianStacker is built and stacks      *)
(* lists of normalized spectra.                                            *)
(***************************************************************************)
\* MedianStacker.__init__
NewMedianStacker(config, grid, count) ==
    IF StackerInitRaises(grid) # None
    THEN Outcome(StackerInitRaises(grid), Unset, grid, count)
    ELSE IF MedianStackerParseRaises(config) # None
    THEN Outcome(MedianStackerParseRaises(config), Unset, grid, count)
    ELSE Outcome(None,
                 Holding([type |-> "MedianStacker",
                          weighted |-> Value(config.weighted),
                          result |-> NewStacker(Value(grid))]),
                 grid, count)

\* mutant: the flux is not divided by the mask of the pixels with ivar
MaskedFlux_unmasked(spectrum, b) == Value(spectrum.normalized_flux)[b]

\* spectrum.normalized_flux / (spectrum.ivar_common_grid != 0) at bin b:
\* the flux where ivar is not 0, and 0/0 = NaN where it is
MaskedFlux(spectrum, b) ==
    RDiv(Value(spectrum.normalized_flux)[b],
         IF Value(spectrum.ivar_common_grid)[b] # Zero THEN One ELSE Zero)

\* MedianStacker.stack: np.stack raises ValueError for an empty list
MedianStacker_stack(self, list) ==
    IF self.weighted THEN [self EXCEPT !.result.status = "StackerError"]
    ELSE IF Len(list) = 0 THEN [self EXCEPT !.result.status = "ValueError"]
    ELSE [self EXCEPT !.result =
            [self.result EXCEPT
                !.stacked_flux =
                    [b \in Bins(self.result.stacked_flux) |->
                        NanMedian([i \in 1..Len(list) |->
                                      MaskedFlux(list[i], b)])],
                !.stacked_weight =
                    [b \in Bins(self.result.stacked_weight) |->
                        NanSum([i \in 1..Len(list) |->
                                   Value(list[i].ivar_common_grid)[b]])],
                !.status = "stacked"]]

\* the longest list of spectra stacked
MaxMedianSpectra == 3

MedianGrid == <<Rat(1000, 1), Rat(1001, 1)>>

\* a spectrum rebinned and normalized: rebin leaves flux 0 in a bin
\* without ivar, and normalize_spectrum leaves NaN everywhere or the flux
\* divided by a positive factor, so that no flux other than 0 or NaN comes
\* with ivar 0 (np.inf is not a value of the model)
PipelineSpectrum(specid, flux, ivar, usable) ==
    set_normalized_flux(
        set_flux_ivar_common_grid(
            NewSpectrum(specid, <<>>, <<>>, <<>>, Zero),
            [b \in 1..2 |-> Rat(flux[b], 1)], [b \in 1..2 |-> Rat(ivar[b], 1)]),
        [b \in 1..2 |-> IF usable THEN Rat(flux[b], 2) ELSE NaN])

\* the spectra: measured in both bins; without ivar in the second bin; a
\* factor that is not positive; better measured; without ivar in the first
\* bin; of flux 0
MedianSpectra ==
    {PipelineSpectrum(1, <<1, 3>>, <<1, 1>>, TRUE),
     PipelineSpectrum(2, <<2, 0>>, <<1, 0>>, TRUE),
     PipelineSpectrum(3, <<4, 4>>, <<1, 2>>, FALSE),
     PipelineSpectrum(4, <<5, 1>>, <<2, 1>>, TRUE),
     PipelineSpectrum(5, <<0, 4>>, <<0, 3>>, TRUE),
     PipelineSpectrum(6, <<0, 0>>, <<1, 1>>, TRUE)}

MedianLists ==
    UNION {[1..n -> MedianSpectra] : n \in 0..MaxMedianSpectra}

\* the record of a call: the list, and the stacker before the call
MedianCall(call, list, before) ==
    [call |-> call, list |-> list, before |-> before]

InitMedian ==
    /\ common_wavelength_grid = Holding(MedianGrid)
    /\ assigned = 1
    /\ stacker = Unset
    /\ last_call = MedianCall("none", <<>>, Unset)
    /\ iface = None /\ normalizer = None /\ pool = None
    /\ spectra = None /\ sigma_i2 = None
    /\ cut = None /\ partA = None /\ partB = None
    /\ whole = None /\ merged = None
    /\ rng = None /\ boots = None

\* stacker = MedianStacker(config["stacker"]), once in a run
ConstructMedianStacker(weighted) ==
    /\ IsNone(stacker)
    /\ \E made \in {NewMedianStacker([weighted |-> Holding(weighted)],
                                     common_wavelength_grid, assigned)} :
          /\ made.raised = None
          /\ stacker' = made.stacker
    /\ last_call' = MedianCall("MedianStacker", <<>>, Unset)
    /\ UNCHANGED <<common_wavelength_grid, spectra, sigma_i2, stackVars,
                   bootVars, iface, normalizer, pool, assigned>>

\* stacker.stack(spectra), once
MedianStack(list) ==
    /\ ~IsNone(stacker)
    /\ Value(stacker).result.status = "constructed"
    /\ stacker' = Holding(MedianStacker_stack(Value(stacker), list))
    /\ last_call' = MedianCall("stack", list, stacker)
    /\ UNCHANGED <<common_wavelength_grid, spectra, sigma_i2, stackVars,
                   bootVars, iface, normalizer, pool, assigned>>

NextMedian ==
    \/ \E weighted \in BOOLEAN : ConstructMedianStacker(weighted)
    \/ \E list \in MedianLists : MedianStack(list)

SpecMedian == InitMedian /\ [][NextMedian]_vars

\* the spectra of the list that count in bin b: their normalized flux is
\* not NaN and their ivar is not 0
Contributors(list, b) ==
    {i \in 1..Len(list) :
        /\ ~IsNaN(Value(list[i].normalized_flux)[b])
        /\ Value(list[i].ivar_common_grid)[b] # Zero}

\* the k-th smallest normalized flux of bin b among the spectra in S
KthFlux(list, b, S, k) ==
    CHOOSE v \in {Value(list[i].normalized_flux)[b] : i \in S} :
        /\ Cardinality({i \in S :
               RLess(Value(list[i].normalized_flux)[b], v)}) < k
        /\ Cardinality({i \in S :
               RLeq(Value(list[i].normalized_flux)[b], v)}) >= k

\* the median of the normalized flux of bin b over the spectra in S
MedianOver(list, b, S) ==
    LET n == Cardinality(S)
    IN IF n = 0 THEN NaN
       ELSE IF n % 2 = 1 THEN KthFlux(list, b, S, (n + 1) \div 2)
       ELSE RDiv(RAdd(KthFlux(list, b, S, n \div 2),
                      KthFlux(list, b, S, n \div 2 + 1)), Rat(2, 1))

ConfigIntervals ==
    {<<<<Rat(1000, 1), Rat(1001, 1)>>>>,
     <<<<Rat(1000, 1), Rat(1000, 1)>>>>,
     <<<<Rat(1001, 1), Rat(1000, 1)>>>>,
     <<<<Rat(1000, 1), Rat(1001, 1)>>, <<Rat(1002, 1), Rat(1003, 1)>>>>,
     <<<<Rat(1000, 1), Rat(1002, 1)>>, <<Rat(1001, 1), Rat(1003, 1)>>>>,
     <<<<Rat(1000, 1), Rat(1001, 1)>>, <<Rat(1003, 1), Rat(1002, 1)>>>>,
     <<<<Rat(1000, 1), Rat(1001, 1)>>, <<Rat(1002, 1), Rat(1003, 1)>>,
       <<Rat(1004, 1), Rat(1005, 1)>>>>}

\* the option 'main interval'
MainIntervals == -2..4

\* f"norm factor {self.main_interval}" in compute_correction_factors: the
\* exception the lookup of the column raises, or None
MainColumnRaises(self) ==
    IF self.main_interval >= self.num_intervals THEN "KeyError" ELSE None

\* the record of a call: the section, and the exception raised
ConfigCall(call, type, config, raised) ==
    [call |-> call, type |-> type, config |-> config, raised |-> raised]

InitNormConfig ==
    /\ common_wavelength_grid = Holding(NormGrid)
    /\ assigned = 1
    /\ normalizer = Unset
    /\ last_call = ConfigCall("none", None, Unset, None)
    /\ iface = None /\ stacker = None /\ pool = None
    /\ spectra = None /\ sigma_i2 = None
    /\ cut = None /\ partA = None /\ partB = None
    /\ whole = None /\ merged = None
    /\ rng = None /\ boots = None

\* normalizer = normalizer_type(config), once in a run
ParseNormalizerConfig(type, config) ==
    /\ last_call.call = "none"
    /\ \E raised \in {NormalizerParseRaises(config)} :
          /\ normalizer' = IF raised # None THEN Unset
                           ELSE Holding(NewVariantNormalizer(type, config))
          /\ last_call' = ConfigCall("construct", type, Holding(config),
                                     raised)
    /\ UNCHANGED <<common_wavelength_grid, spectra, sigma_i2, stackVars,
                   bootVars, iface, pool, stacker, assigned>>

\* MultipleRegionsNormalization.compute_correction_factors on the normalizer
\* built, as far as its first lookup of the column of the main interval
LookupMainColumn ==
    /\ ~IsNone(normalizer)
    /\ last_call.type = "MultipleRegionsNormalization"
    /\ last_call.call = "construct"
    /\ last_call' = ConfigCall("compute_correction_factors", last_call.type,
                               last_call.config,
                               MainColumnRaises(Value(normalizer).self))
    /\ UNCHANGED <<common_wavelength_grid, spectra, sigma_i2, stackVars,
                   bootVars, iface, pool, stacker, assigned, normalizer>>

NextNormConfig ==
    \/ \E type \in NormalizerTypes, intervals \in ConfigIntervals,
          main_interval \in MainIntervals :
           ParseNormalizerConfig(
               type,
               [intervals |-> intervals, main_interval |-> main_interval,
                num_processors |-> 1,
                compute_correction_factors_flag |-> FALSE])
    \/ LookupMainColumn

SpecNormConfig == InitNormConfig /\ [][NextNormConfig]_vars

\* C27: constructing MultipleRegionsNormalization fails with
\* NormalizerError for every main interval that is negative or is greater
\* than or equal to the number of intervals.
C27_MainIntervalChecked ==
    last_call.call = "construct" =>
        LET config == Value(last_call.config)
        IN (\/ config.main_interval < 0
            \/ config.main_interval >= Len(config.intervals))
               => last_call.raised = "NormalizerError"

\* a normalizer built with two intervals and main interval 2
C27_MainIntervalPastTheEnd ==
    /\ last_call.call = "construct"
    /\ last_call.type = "MultipleRegionsNormalization"
    /\ last_call.raised = None
    /\ Len(Value(last_call.config).intervals) = 2
    /\ Value(normalizer).self.main_interval = 2

\* ... and the KeyError of its compute_correction_factors
C27_KeyErrorLater ==
    /\ last_call.call = "compute_correction_factors"
    /\ last_call.raised = "KeyError"

\* what the constructor does: it fails for a main interval that is
\* negative or greater than the number of intervals
C27_GreaterThanChecked ==
    last_call.call = "construct" =>
        LET config == Value(last_call.config)
        IN (\/ config.main_interval < 0
            \/ config.main_interval > Len(config.intervals))
               => last_call.raised = "NormalizerError"

(***************************************************************************)
(* SpecOptions: update_default_options on dictionaries of defaults.        *)
(***************************************************************************)
\* a value of a dictionary with its python type: the integer v, the string
\* of the digits of v, and the mark of a key the dictionary does not have
PyInt(v) == [type |-> "int", v |-> v]
PyStr(v) == [type |-> "str", v |-> v]
Absent == [type |-> "absent", v |-> 0]

OptionKeys == {"1", "2", "3"}
OptionValues == {PyInt(0), PyInt(1), PyInt(2), PyInt(3), PyStr(0)}

\* the dictionaries: every key has a value or is absent
OptionDicts == [OptionKeys -> OptionValues \cup {Absent}]

\* dict.keys()
Keys(dict) == {key \in OptionKeys : dict[key] # Absent}

\* the dictionary with the given values for keys "1", "2", "3"
Dict(v1, v2, v3) ==
    [key \in OptionKeys |->
        IF key = "1" THEN v1 ELSE IF key = "2" THEN v2 ELSE v3]

\* the default options of the callers
DefaultDicts ==
    {Dict(PyInt(1), PyInt(2), PyInt(3)),
     Dict(PyInt(1), PyInt(2), Absent),
     Dict(Absent, PyStr(0), Absent),
     Dict(Absent, Absent, Absent)}

\* the keys of new_options that raise StackingError
ConflictingKeys(default_options, new_options, force_overwrite) ==
    {key \in Keys(new_options) \cap Keys(default_options) :
        \/ default_options[key].type # new_options[key].type
        \/ default_options[key] # new_options[key] /\ ~force_overwrite}

\* update_default_options: the exception raised, the dictionary returned,
\* and the contents of the argument default_options after the call
update_default_options(default_options, new_options, force_overwrite) ==
    LET copy == default_options
    IN IF ConflictingKeys(copy, new_options, force_overwrite) # {}
       THEN [raised |-> "StackingError", returned |-> Unset,
             default_options |-> default_options]
       ELSE [raised |-> None,
             returned |-> Holding([key \in OptionKeys |->
                                      IF key \in Keys(copy) THEN copy[key]
                                      ELSE new_options[key]]),
             default_options |-> default_options]

\* the record of a call
OptionsCall(call, new_options, force_overwrite, raised, returned) ==
    [call |-> call, new_options |-> new_options,
     force_overwrite |-> force_overwrite, raised |-> raised,
     returned |-> returned]

\* iface holds the caller's dictionary of defaults
InitOptions ==
    /\ iface \in DefaultDicts
    /\ last_call = OptionsCall("none", Dict(Absent, Absent, Absent), FALSE,
                               None, Unset)
    /\ common_wavelength_grid = None /\ assigned = None
    /\ normalizer = None /\ stacker = None /\ pool = None
    /\ spectra = None /\ sigma_i2 = None
    /\ cut = None /\ partA = None /\ partB = None
    /\ whole = None /\ merged = None
    /\ rng = None /\ boots = None

\* update_default_options(defaults, new_options, force_overwrite)
UpdateDefaultOptions(new_options, force_overwrite) ==
    /\ \E done \in {update_default_options(iface, new_options,
                                           force_overwrite)} :
          /\ iface' = done.default_options
          /\ last_call' = OptionsCall("update_default_options", new_options,
                                      force_overwrite, done.raised,
                                      done.returned)
    /\ UNCHANGED <<common_wavelength_grid, spectra, sigma_i2, stackVars,
                   bootVars, normalizer, pool, stacker, assigned>>

NextOptions ==
    \E new_options \in OptionDicts, force_overwrite \in BOOLEAN :
        UpdateDefaultOptions(new_options, force_overwrite)

SpecOptions == InitOptions /\ [][NextOptions]_vars

\* the keys of both dictionaries with different values of the same type
OverwrittenKeys(default_options, new_options) ==
    {key \in Keys(new_options) \cap Keys(default_options) :
        /\ default_options[key].type = new_options[key].type
        /\ default_options[key] # new_options[key]}

\* C29: update_default_options with force_overwrite=True returns a
\* dictionary in which every key of both inputs with different values of
\* the same type carries the value of new_options, and the dictionary
\* passed in is not modified.
C29_ForceOverwrite ==
    [][\A new_options \in OptionDicts :
          UpdateDefaultOptions(new_options, TRUE) =>
              /\ iface' = iface
              /\ (last_call'.raised = None =>
                    \A key \in OverwrittenKeys(iface, new_options) :
                        Value(last_call'.returned)[key] = new_options[key])
      ]_vars

\* defaults {'1': 1, '2': 2} with new options {'1': 0, '3': 3} and
\* force_overwrite give {'1': 1, '2': 2, '3': 3}
C29_DefaultKept ==
    /\ last_call.call = "update_default_options"
    /\ last_call.force_overwrite
    /\ iface = Dict(PyInt(1), PyInt(2), Absent)
    /\ last_call.new_options = Dict(PyInt(0), Absent, PyInt(3))
    /\ last_call.raised = None
    /\ Value(last_call.returned) = Dict(PyInt(1), PyInt(2), PyInt(3))

\* what the function does with force_overwrite: the keys of the defaults
\* keep their values, the other keys of new_options are added, and the
\* dictionary passed in is not modified
C29_ForceAddsOnly ==
    [][\A new_options \in OptionDicts :
          UpdateDefaultOptions(new_options, TRUE) =>
              /\ iface' = iface
              /\ (last_call'.raised = None =>
                    /\ Keys(Value(last_call'.returned)) =
                           Keys(iface) \cup Keys(new_options)
                    /\ \A key \in Keys(iface) :
                           Value(last_call'.returned)[key] = iface[key]
                    /\ \A key \in Keys(new_options) \ Keys(iface) :
                           Value(last_call'.returned)[key] = new_options[key])
      ]_vars

(***************************************************************************)
(* The table groups_info of a SplitStacker with split type OR.             *)
(***************************************************************************)
\* the rows of groups_info: variable k, interval i
InfoRows(self) ==
    UNION {{<<k, i>> : i \in DOMAIN self.groups_info[k]} :
               k \in 1..Len(self.split_on)}

InfoRow(self, ki) == self.groups_info[ki[1]][ki[2]]

\* sum over the split variables of (number of cuts - 1)
RECURSIVE NumIntervalsUpTo(_, _)
NumIntervalsUpTo(splits, k) ==
    IF k = 0 THEN 0
    ELSE NumIntervalsUpTo(splits, k - 1) + Len(splits[k]) - 1

\* the values other than -1 of the column GROUP_<k-1> of the catalogue
ColumnValues(self, k) ==
    {self.split_catalogue[r].groups[k] :
        r \in 1..Len(self.split_catalogue)} \ {-1}

\* a SplitStacker with split type OR has been built
BuiltOr == ~IsNone(stacker) /\ Value(stacker).split_type = "OR"

\* C28: with split type OR, num_groups is the number of rows of
\* groups_info, the sum over the variables of (number of cuts - 1); the
\* GROUP_NUM are exactly 0..num_groups-1; the COLNAME of a row is
\* GROUP_<index of its variable>; every value other than -1 of the column
\* GROUP_k is the GROUP_NUM of a row with COLNAME GROUP_k.
C28_GroupsInfo ==
    BuiltOr =>
        LET self == Value(stacker)
        IN /\ self.num_groups = Cardinality(InfoRows(self))
           /\ self.num_groups =
                  NumIntervalsUpTo(self.splits, Len(self.split_on))
           /\ {InfoRow(self, ki).GROUP_NUM : ki \in InfoRows(self)} =
                  0..(self.num_groups - 1)
           /\ \A ki \in InfoRows(self) : InfoRow(self, ki).COLNAME = ki[1] - 1
           /\ \A k \in 1..Len(self.split_on) :
                 \A value \in ColumnValues(self, k) :
                    \E ki \in InfoRows(self) :
                       /\ InfoRow(self, ki).COLNAME = k - 1
                       /\ InfoRow(self, ki).GROUP_NUM = value

\* one variable with the cuts [1.0 1.5 2.0]: num_groups is 3 with two rows
\* in groups_info, and the second row is named GROUP_1
C28_ThreeGroupsTwoRows ==
    /\ BuiltOr
    /\ Len(Value(stacker).split_on) = 1
    /\ Len(Value(stacker).splits[1]) = 3
    /\ Value(stacker).num_groups = 3
    /\ Cardinality(InfoRows(Value(stacker))) = 2
    /\ Value(stacker).groups_info[1][2].COLNAME = 1

\* two variables: the numbers of the second variable start after a gap
C28_GapInGroupNum ==
    /\ BuiltOr
    /\ Len(Value(stacker).split_on) = 2
    /\ {InfoRow(Value(stacker), ki).GROUP_NUM :
           ki \in InfoRows(Value(stacker))} = {0, 1, 3, 4}

\* what assing_groups leaves: num_groups is the number of cuts of all the
\* variables, the rows are the intervals, each named after the index of its
\* interval, and every value other than -1 of a column is the GROUP_NUM of a
\* row of the variable of that column
C28_RowsOfIntervals ==
    BuiltOr =>
        LET self == Value(stacker)
        IN /\ self.num_groups =
                  NumIntervalsUpTo(self.splits, Len(self.split_on))
                  + Len(self.split_on)
           /\ Cardinality(InfoRows(self)) =
                  NumIntervalsUpTo(self.splits, Len(self.split_on))
           /\ \A ki \in InfoRows(self) : InfoRow(self, ki).COLNAME = ki[2] - 1
           /\ \A k \in 1..Len(self.split_on) :
                 \A value \in ColumnValues(self, k) :
                    \E ki \in InfoRows(self) :
                       /\ ki[1] = k
                       /\ InfoRow(self, ki).GROUP_NUM = value

(***************************************************************************)
(* SpecMergeBoot: MergeBootstrapMeanStacker on files that hold a main      *)
(* stack and bootstrap realizations.                                       *)
(***************************************************************************)
\* the realizations BOOTSTRAP_0 .. of a file
MaxRealizations == 2

\* an array of the length of the grid with one value in every bin
Flat(wavelength, level) == [b \in 1..Len(wavelength) |-> Rat(level, 1)]

\* a file as BootstrapWriter lays it out: the main stack in the table
\* extension hdu, and one (flux, weight) pair per extension BOOTSTRAP_<i>,
\* with the levels given, repeated when there are more realizations
BootFile(hdu, wavelength, weight, levels) ==
    [hdu |-> hdu, wavelength |-> wavelength,
     flux |-> Flat(wavelength, 2),
     weight |-> Flat(wavelength, weight),
     realizations |-> [i \in 1..MaxRealizations |->
                          <<Flat(wavelength,
                                 levels[((i - 1) % Len(levels)) + 1]),
                            Flat(wavelength, weight)>>]]

\* the files of the partial runs on a grid: realizations that differ, that
\* are equal, and that differ the other way with another weight
BootFiles(hdu, grid) ==
    {BootFile(hdu, grid, 1, <<1, 3>>),
     BootFile(hdu, grid, 1, <<2, 2>>),
     BootFile(hdu, grid, 2, <<3, 1>>)}

\* the option 'stack list': one or two files
BootStackLists ==
    UNION {{<<a>> : a \in BootFiles(hdu, grid)}
           \cup {<<a, b>> : a \in BootFiles(hdu, grid),
                            b \in BootFiles(hdu, grid)} :
               hdu \in {"STACKED_SPECTRUM", WrittenExtension},
               grid \in CallerGrids}

\* the record of a call
BootCall(call, stack_list, num_bootstrap, list, raised) ==
    [call |-> call, stack_list |-> stack_list,
     num_bootstrap |-> num_bootstrap, spectra |-> list, raised |-> raised]

InitMergeBoot ==
    /\ common_wavelength_grid = Unset
    /\ assigned = 0
    /\ stacker = Unset
    /\ last_call = BootCall("none", <<>>, 0, Unset, None)
    /\ iface = None /\ normalizer = None /\ pool = None
    /\ spectra = None /\ sigma_i2 = None
    /\ cut = None /\ partA = None /\ partB = None
    /\ whole = None /\ merged = None
    /\ rng = None /\ boots = None

\* stacker = MergeBootstrapMeanStacker(config), once in a run
ConstructMergeBootstrap(stack_list, num_bootstrap) ==
    /\ IsNone(stacker)
    /\ \E made \in {NewMergeBootstrapMeanStacker(
                        [type |-> "MergeBootstrapMeanStacker",
                         stack_list |-> stack_list,
                         num_bootstrap |-> num_bootstrap],
                        common_wavelength_grid, assigned)} :
          /\ common_wavelength_grid' = made.grid
          /\ assigned' = made.assigned
          /\ stacker' = IF made.raised # None THEN stacker ELSE made.stacker
          /\ last_call' = BootCall("construct", stack_list, num_bootstrap,
                                   Unset, made.raised)
    /\ UNCHANGED <<spectra, sigma_i2, stackVars, bootVars, iface, normalizer,
                   pool>>

\* stacker.stack(spectra)
MergeBootstrapStack(list) ==
    /\ ~IsNone(stacker)
    /\ \E after \in {MergeBootstrapMeanStacker_stack(Value(stacker), list)} :
          /\ stacker' = Holding(after)
          /\ last_call' = BootCall("stack", last_call.stack_list,
                                   last_call.num_bootstrap, list,
                                   IF after.result.status = "stacked"
                                   THEN None ELSE after.result.status)
    /\ UNCHANGED <<common_wavelength_grid, spectra, sigma_i2, stackVars,
                   bootVars, iface, normalizer, pool, assigned>>

NextMergeBoot ==
    \/ \E grid \in CallerGrids : SetGridOnce(grid)
    \/ \E stack_list \in BootStackLists,
          num_bootstrap \in (0 - 1)..MaxRealizations :
           ConstructMergeBootstrap(stack_list, num_bootstrap)
    \/ \E list \in {Unset, Holding(<<>>)} : MergeBootstrapStack(list)

SpecMergeBoot == InitMergeBoot /\ [][NextMergeBoot]_vars

\* realization BOOTSTRAP_<i-1> of every file of the list
RealizationStacks(stack_list, i) ==
    [f \in 1..Len(stack_list) |-> stack_list[f].realizations[i]]

\* the merge of realization i of the files, bin b
MergedRealization(stack_list, i, b) ==
    MergeStackedFlux(RealizationStacks(stack_list, i), b)

\* stack(None) has returned
BootMerged == last_call.call = "stack" /\ last_call.raised = None

\* C30: bootstrap stacker i of MergeBootstrapMeanStacker merges realization
\* BOOTSTRAP_i of every file, not the main stacks, so after stack(None) the
\* main stacked_error is the standard deviation, bin by bin, of the merged
\* realizations and is not zero where the merged realizations differ.
C30_MergesRealizations ==
    BootMerged =>
        LET self == Value(stacker)
            list == last_call.stack_list
            count == Len(self.bootstrap_stackers)
        IN /\ \A i \in 1..count :
                  self.bootstrap_stackers[i].stacks =
                      RealizationStacks(list, i)
           /\ \A b \in Bins(self.main_stacker.result.stacked_error) :
                 /\ self.main_stacker.result.stacked_error[b] =
                        NanStd([i \in 1..count |->
                                   MergedRealization(list, i, b)])
                 /\ (\E i, j \in 1..count :
                        MergedRealization(list, i, b) #
                            MergedRealization(list, j, b))
                        => self.main_stacker.result.stacked_error[b] # Zero

\* one file with the realizations 1 and 3: both bootstrap stackers hold the
\* main stack, and the error is zero
C30_ZeroErrorOnDifferingRealizations ==
    /\ BootMerged
    /\ Len(last_call.stack_list) = 1
    /\ last_call.stack_list[1].realizations[1][1][1] = One
    /\ last_call.stack_list[1].realizations[2][1][1] = Rat(3, 1)
    /\ Len(Value(stacker).bootstrap_stackers) = 2
    /\ Value(stacker).bootstrap_stackers[1].result.stacked_flux[1] = Rat(2, 1)
    /\ Value(stacker).bootstrap_stackers[2].result.stacked_flux[1] = Rat(2, 1)
    /\ Value(stacker).main_stacker.result.stacked_error[1] = Zero

\* what the class does: every bootstrap stacker merges the main stacks of
\* the files, and the error is zero in every bin
C30_EveryStackerMergesMain ==
    BootMerged =>
        LET self == Value(stacker)
        IN /\ \A i \in 1..Len(self.bootstrap_stackers) :
                 /\ self.bootstrap_stackers[i].stacks =
                        self.main_stacker.stacks
                 /\ self.bootstrap_stackers[i].result.stacked_flux =
                        self.main_stacker.result.stacked_flux
           /\ \A b \in Bins(self.main_stacker.result.stacked_error) :
                 self.main_stacker.result.stacked_error[b] = Zero

====
